---------------------------- MODULE Spec2Model ----------------------------
(***************************************************************************)
(* Course-completion ingestion and award-issuance pipeline of the GSF      *)
(* credentials site: the webhook handler POST of                           *)
(* src/pages/api/webhooks/course-completion.ts, its badge resolver, and    *)
(* the notification sender of src/lib (sendAwardNotification).             *)
(*                                                                         *)
(* Strings are sequences of one-character strings, so that trim and        *)
(* toLowerCase are computed character by character.  An optional value     *)
(* (string | undefined) is a sequence of length at most one: None is       *)
(* undefined, Some(s) is the string s.                                     *)
(***************************************************************************)
EXTENDS Naturals, Sequences, FiniteSets, TLC

None == <<>>
Some(s) == <<s>>

(***************************************************************************)
(* Characters.                                                             *)
(***************************************************************************)
UpperChars ==
    <<"A", "B", "C", "D", "E", "F", "G", "H", "I", "J", "K", "L", "M", "N", "O", "P", "Q", "R", "S", "T", "U", "V", "W", "X", "Y", "Z">>
LowerChars ==
    <<"a", "b", "c", "d", "e", "f", "g", "h", "i", "j", "k", "l", "m", "n", "o", "p", "q", "r", "s", "t", "u", "v", "w", "x", "y", "z">>
DigitChars == {"0", "1", "2", "3", "4", "5", "6", "7", "8", "9"}
SpaceChars == {" ", "\t", "\n", "\r"}
Range(s) == {s[i] : i \in 1..Len(s)}
LetterChars == Range(UpperChars) \cup Range(LowerChars)
AlnumChars == LetterChars \cup DigitChars

\* String.prototype.toLowerCase, one character
ToLowerChar(c) ==
    IF \E i \in 1..Len(UpperChars) : UpperChars[i] = c
    THEN LowerChars[CHOOSE i \in 1..Len(UpperChars) : UpperChars[i] = c]
    ELSE c

\* String.prototype.toLowerCase
ToLowerCase(s) == [i \in 1..Len(s) |-> ToLowerChar(s[i])]

\* String.prototype.trim: the string without its leading and trailing white space
Trim(s) ==
    LET keep == {i \in 1..Len(s) : s[i] \notin SpaceChars}
    IN  IF keep = {} THEN <<>>
        ELSE LET lo == CHOOSE i \in keep : \A j \in keep : i <= j
                 hi == CHOOSE i \in keep : \A j \in keep : j <= i
             IN  SubSeq(s, lo, hi)


(***************************************************************************)
(* The alias table COURSE_TO_BADGE_SLUG and the default slug.              *)
(***************************************************************************)
KEY_GSP_SLUG ==
    <<"g", "r", "e", "e", "n", "-", "s", "o", "f", "t", "w", "a", "r", "e", "-", "p", "r", "a", "c", "t", "i", "t", "i", "o", "n", "e", "r">>
KEY_GSP_NAME ==
    <<"g", "r", "e", "e", "n", " ", "s", "o", "f", "t", "w", "a", "r", "e", " ", "p", "r", "a", "c", "t", "i", "t", "i", "o", "n", "e", "r">>
KEY_GSP_FOR_SLUG ==
    <<"g", "r", "e", "e", "n", "-", "s", "o", "f", "t", "w", "a", "r", "e", "-", "f", "o", "r", "-", "p", "r", "a", "c", "t", "i", "t", "i", "o", "n", "e", "r", "s">>
KEY_GSP_FOR_NAME ==
    <<"g", "r", "e", "e", "n", " ", "s", "o", "f", "t", "w", "a", "r", "e", " ", "f", "o", "r", " ", "p", "r", "a", "c", "t", "i", "t", "i", "o", "n", "e", "r", "s">>
KEY_GSP ==
    <<"g", "s", "p">>
KEY_SCS_SLUG ==
    <<"s", "u", "s", "t", "a", "i", "n", "a", "b", "l", "e", "-", "c", "l", "o", "u", "d", "-", "s", "p", "e", "c", "i", "a", "l", "i", "s", "t">>
KEY_SCS_NAME ==
    <<"s", "u", "s", "t", "a", "i", "n", "a", "b", "l", "e", " ", "c", "l", "o", "u", "d", " ", "s", "p", "e", "c", "i", "a", "l", "i", "s", "t">>
KEY_SCS ==
    <<"s", "c", "s">>

SLUG_GSP == KEY_GSP_SLUG
SLUG_SCS == KEY_SCS_SLUG

\* the own properties of the object literal
COURSE_TO_BADGE_SLUG ==
    { <<KEY_GSP_SLUG, SLUG_GSP>>, <<KEY_GSP_NAME, SLUG_GSP>>,
      <<KEY_GSP_FOR_SLUG, SLUG_GSP>>, <<KEY_GSP_FOR_NAME, SLUG_GSP>>,
      <<KEY_GSP, SLUG_GSP>>,
      <<KEY_SCS_SLUG, SLUG_SCS>>, <<KEY_SCS_NAME, SLUG_SCS>>,
      <<KEY_SCS, SLUG_SCS>> }

AliasKeys == {e[1] : e \in COURSE_TO_BADGE_SLUG}

DEFAULT_BADGE_SLUG == SLUG_GSP

\* COURSE_TO_BADGE_SLUG is a plain object: a property read that finds no own
\* property goes on to Object.prototype, whose members are truthy values that
\* are not strings.
PROTO_CONSTRUCTOR ==
    <<"c", "o", "n", "s", "t", "r", "u", "c", "t", "o", "r">>
PROTO_PROTO ==
    <<"_", "_", "p", "r", "o", "t", "o", "_", "_">>
PROTO_TOSTRING ==
    <<"t", "o", "S", "t", "r", "i", "n", "g">>
PROTO_VALUEOF ==
    <<"v", "a", "l", "u", "e", "O", "f">>
ObjectPrototypeKeys == {PROTO_CONSTRUCTOR, PROTO_PROTO, PROTO_TOSTRING, PROTO_VALUEOF}

\* what such a member becomes when it is used where a slug is expected
INHERITED_MEMBER ==
    <<"[", "o", "b", "j", "e", "c", "t", "]">>

\* COURSE_TO_BADGE_SLUG[candidate]: None when the read yields undefined
AliasLookup(candidate) ==
    IF candidate \in AliasKeys
    THEN Some((CHOOSE e \in COURSE_TO_BADGE_SLUG : e[1] = candidate)[2])
    ELSE IF candidate \in ObjectPrototypeKeys
         THEN Some(INHERITED_MEMBER)
         ELSE None

\* normalize(value): undefined for undefined and for "", else trim + lower case
normalize(value) ==
    IF value = None \/ value[1] = <<>>
    THEN None
    ELSE Some(ToLowerCase(Trim(value[1])))

\* Boolean(x) of the filter: undefined and "" are dropped
Truthy(opt) == opt # None /\ opt[1] # <<>>

\* the candidate list with the course identifiers ahead of the explicit slug
CandidatesCourseFirst(params) ==
    LET all == << normalize(params.courseId), normalize(params.courseName),
                  normalize(params.badgeSlug) >>
    IN  SelectSeq(all, Truthy)

\* [normalize(badgeSlug), normalize(courseId), normalize(courseName)].filter(Boolean)
Candidates(params) ==
    LET all == << normalize(params.badgeSlug), normalize(params.courseId),
                  normalize(params.courseName) >>
    IN  SelectSeq(all, Truthy)

RECURSIVE FirstHit(_)
\* the for loop over the candidates: the first truthy table read, or None
FirstHit(cands) ==
    IF cands = <<>> THEN None
    ELSE IF AliasLookup(Head(cands)[1]) # None
         THEN AliasLookup(Head(cands)[1])
         ELSE FirstHit(Tail(cands))

\* resolveBadgeSlug(params): string | undefined
resolveBadgeSlug(params) ==
    IF FirstHit(Candidates(params)) # None
    THEN FirstHit(Candidates(params))
    ELSE Some(DEFAULT_BADGE_SLUG)

(***************************************************************************)
(* z.string().email(): the whole string must match the e-mail pattern;     *)
(* nothing is trimmed before the test.                                     *)
(***************************************************************************)
LocalChars == AlnumChars \cup {"_", "'", "+", "-", "."}
LocalEndChars == AlnumChars \cup {"_", "+", "-"}
DomainChars == AlnumChars \cup {"-", "."}

IsEmail(s) ==
    LET ats == {i \in 1..Len(s) : s[i] = "@"}
    IN  /\ Cardinality(ats) = 1
        /\ LET k == CHOOSE i \in ats : TRUE
               local == SubSeq(s, 1, k - 1)
               domain == SubSeq(s, k + 1, Len(s))
               dots == {i \in 1..Len(domain) : domain[i] = "."}
           IN  /\ Len(local) >= 1
               /\ \A i \in 1..Len(local) : local[i] \in LocalChars
               /\ local[1] # "."
               /\ local[Len(local)] \in LocalEndChars
               /\ \A i \in 1..(Len(s) - 1) : ~(s[i] = "." /\ s[i + 1] = ".")
               /\ \A i \in 1..Len(domain) : domain[i] \in DomainChars
               /\ dots # {}
               /\ Len(domain) >= 1 /\ domain[1] \in AlnumChars
               /\ \A i \in dots : i < Len(domain) /\ domain[i + 1] \in AlnumChars
               /\ LET last == CHOOSE i \in dots : \A j \in dots : j <= i
                  IN  /\ Len(domain) - last >= 2
                      /\ \A i \in (last + 1)..Len(domain) : domain[i] \in LetterChars

(***************************************************************************)
(* Request inputs.                                                         *)
(***************************************************************************)
IN_GSP_PADDED ==
    <<" ", "G", "S", "P", " ">>
IN_SCS ==
    <<"s", "c", "s">>
IN_SCS_TITLE ==
    <<"S", "u", "s", "t", "a", "i", "n", "a", "b", "l", "e", " ", "C", "l", "o", "u", "d", " ", "S", "p", "e", "c", "i", "a", "l", "i", "s", "t">>
IN_UNKNOWN ==
    <<"d", "o", "e", "s", "-", "n", "o", "t", "-", "e", "x", "i", "s", "t">>
IN_CONSTRUCTOR ==
    <<"c", "o", "n", "s", "t", "r", "u", "c", "t", "o", "r">>
IN_BLANK ==
    <<" ", " ">>
EMAIL_LOWER ==
    <<"j", "@", "x", ".", "i", "o">>
EMAIL_MIXED ==
    <<"J", "@", "X", ".", "i", "o">>
EMAIL_PADDED ==
    <<" ", "j", "@", "x", ".", "i", "o", " ">>
EMAIL_OTHER ==
    <<"k", "@", "x", ".", "i", "o">>
IN_EMPTY == <<>>
NAME_JANE == <<"J", "a", "n", "e">>
\* a personalizedDescription supplied with the payload
IN_DESCRIPTION == <<"T", "o", "p", " ", "o", "f", " ", "c", "l", "a", "s", "s">>
NAME_JAY == <<"J", "a", "y">>

\* A request body.  json is FALSE for a body that is not JSON.  The other
\* fields are the members of the JSON object: None when the member is absent.
\* record is None or Some(r), r the nested record of a database webhook.
DirectBody(name, email, badgeSlug, courseId, courseName) ==
    [ json |-> TRUE, name |-> name, email |-> email, badgeSlug |-> badgeSlug,
      courseId |-> courseId, courseName |-> courseName,
      personalizedDescription |-> None,
      type |-> None, table |-> None, schema |-> None, record |-> None ]

\* a description and no course name
BODY_GSP ==
    [DirectBody(Some(NAME_JANE), Some(EMAIL_LOWER), None, Some(IN_GSP_PADDED), None)
        EXCEPT !.personalizedDescription = Some(IN_DESCRIPTION)]
BODY_UNKNOWN_SLUG ==
    DirectBody(Some(NAME_JAY), Some(EMAIL_MIXED), Some(IN_UNKNOWN), None, None)
BODY_PADDED_EMAIL ==
    DirectBody(Some(NAME_JANE), Some(EMAIL_PADDED), None, Some(IN_GSP_PADDED), None)
BODY_NO_CANDIDATE ==
    DirectBody(Some(NAME_JANE), Some(EMAIL_OTHER), None, None, Some(IN_BLANK))
\* a description and a course name
BODY_SCS ==
    [DirectBody(Some(NAME_JANE), Some(EMAIL_LOWER), None, Some(IN_SCS), Some(IN_SCS_TITLE))
        EXCEPT !.personalizedDescription = Some(IN_DESCRIPTION)]

\* the nested record of a database webhook, the personalizedDescription of
\* its metadata absent
WebhookRecord(course_id, course_name, user_email, user_name) ==
    [ course_id |-> course_id, course_name |-> course_name,
      user_email |-> user_email, user_name |-> user_name,
      metadataDescription |-> None ]

TYPE_INSERT == <<"I", "N", "S", "E", "R", "T">>
TABLE_COMPLETIONS == <<"c", "o", "m", "p", "l", "e", "t", "i", "o", "n", "s">>
SCHEMA_PUBLIC == <<"p", "u", "b", "l", "i", "c">>

\* the members type, table, schema and record of a database webhook, added to
\* the members of a direct body
WebhookBody(direct, record) ==
    [direct EXCEPT !.type = Some(TYPE_INSERT), !.table = Some(TABLE_COMPLETIONS),
                   !.schema = Some(SCHEMA_PUBLIC), !.record = Some(record)]

\* a body that is not JSON
BODY_NOT_JSON ==
    [DirectBody(None, None, None, None, None) EXCEPT !.json = FALSE]
\* a JSON object of neither shape: no e-mail, no record
BODY_MISSING_EMAIL ==
    DirectBody(Some(NAME_JANE), None, None, Some(IN_SCS), None)
\* a database webhook and nothing else; its metadata carries a description
BODY_WEBHOOK ==
    WebhookBody(DirectBody(None, None, None, None, None),
                [WebhookRecord(Some(IN_SCS), None, Some(EMAIL_OTHER), Some(NAME_JAY))
                    EXCEPT !.metadataDescription = Some(IN_DESCRIPTION)])
\* an object that satisfies both shapes, with different people and badges;
\* the record has a course name and its metadata a description
BODY_BOTH_SHAPES ==
    WebhookBody(DirectBody(Some(NAME_JANE), Some(EMAIL_OTHER), Some(IN_SCS), None, None),
                [WebhookRecord(Some(IN_GSP_PADDED), Some(IN_SCS_TITLE),
                               Some(EMAIL_MIXED), Some(NAME_JAY))
                    EXCEPT !.metadataDescription = Some(IN_DESCRIPTION)])

\* the bodies the requests are drawn from; a request is known by the position
\* of its body in this list
Bodies ==
    <<BODY_GSP, BODY_UNKNOWN_SLUG, BODY_PADDED_EMAIL, BODY_NO_CANDIDATE, BODY_SCS,
      BODY_NOT_JSON, BODY_MISSING_EMAIL, BODY_WEBHOOK, BODY_BOTH_SHAPES>>

\* z.string(): the member is present (every member of a body is a string)
IsString(opt) == opt # None

\* supabaseWebhookSchema.safeParse(json).success
supabaseWebhookSchema(body) ==
    /\ body.json
    /\ IsString(body.type) /\ IsString(body.table) /\ IsString(body.schema)
    /\ body.record # None
    /\ LET r == body.record[1]
       IN  /\ IsString(r.course_id)
           /\ IsString(r.user_email) /\ IsEmail(r.user_email[1])
           /\ IsString(r.user_name)

\* directPayloadSchema.safeParse(json).success
directPayloadSchema(body) ==
    /\ body.json
    /\ IsString(body.name) /\ Len(body.name[1]) >= 1
    /\ IsString(body.email) /\ IsEmail(body.email[1])

\* a description rule that prefers the payload's own description
DescriptionOfPayloadFirst(courseName, given) ==
    IF given # None
    THEN [kind |-> "payload", text |-> given[1]]
    ELSE IF Truthy(courseName)
         THEN [kind |-> "generated", text |-> courseName[1]]
         ELSE [kind |-> "none", text |-> <<>>]

\* the description kept with the award: the generated sentence when a course
\* name is given (the template literal of line 142), else the payload's own
DescriptionOf(courseName, given) ==
    IF Truthy(courseName)
    THEN [kind |-> "generated", text |-> courseName[1]]
    ELSE IF given # None
         THEN [kind |-> "payload", text |-> given[1]]
         ELSE [kind |-> "none", text |-> <<>>]

\* the dispatch with the two shapes tried in the other order
ParsePayloadDirectFirst(body) ==
    IF directPayloadSchema(body)
    THEN [ ok |-> TRUE, shape |-> "direct",
           name |-> body.name[1], email |-> body.email[1],
           badgeSlug |-> body.badgeSlug, courseId |-> body.courseId,
           courseName |-> body.courseName,
           description |-> DescriptionOf(body.courseName,
                                         body.personalizedDescription) ]
    ELSE IF supabaseWebhookSchema(body)
         THEN LET r == body.record[1]
              IN  [ ok |-> TRUE, shape |-> "webhook",
                    name |-> r.user_name[1], email |-> r.user_email[1],
                    badgeSlug |-> None, courseId |-> r.course_id,
                    courseName |-> r.course_name,
                    description |-> DescriptionOf(r.course_name, r.metadataDescription) ]
         ELSE [ ok |-> FALSE, shape |-> "none",
                name |-> <<>>, email |-> <<>>,
                badgeSlug |-> None, courseId |-> None, courseName |-> None,
                description |-> DescriptionOf(None, None) ]

\* The fields the handler takes from the body: the webhook shape is tried
\* first, the direct shape second; ok is FALSE when both are rejected.
ParsePayload(body) ==
    IF supabaseWebhookSchema(body)
    THEN LET r == body.record[1]
         IN  [ ok |-> TRUE, shape |-> "webhook",
               name |-> r.user_name[1], email |-> r.user_email[1],
               badgeSlug |-> None, courseId |-> r.course_id,
               courseName |-> r.course_name,
               description |-> DescriptionOf(r.course_name, r.metadataDescription) ]
    ELSE IF directPayloadSchema(body)
         THEN [ ok |-> TRUE, shape |-> "direct",
                name |-> body.name[1], email |-> body.email[1],
                badgeSlug |-> body.badgeSlug, courseId |-> body.courseId,
                courseName |-> body.courseName,
                description |-> DescriptionOf(body.courseName,
                                              body.personalizedDescription) ]
         ELSE [ ok |-> FALSE, shape |-> "none",
                name |-> <<>>, email |-> <<>>,
                badgeSlug |-> None, courseId |-> None, courseName |-> None,
                description |-> DescriptionOf(None, None) ]

\* normalize(email) || email.toLowerCase()
NormalizedEmail(email) ==
    IF Truthy(normalize(Some(email)))
    THEN normalize(Some(email))[1]
    ELSE ToLowerCase(email)

(***************************************************************************)
(* Certificate generation (certificatePdf): the text operations on the     *)
(* template.                                                               *)
(***************************************************************************)

\* String.prototype.toUpperCase
ToUpperCase(s) ==
    [i \in 1..Len(s) |->
        IF \E k \in 1..Len(LowerChars) : LowerChars[k] = s[i]
        THEN UpperChars[CHOOSE k \in 1..Len(LowerChars) : LowerChars[k] = s[i]]
        ELSE s[i]]

\* p occurs in s at position i
IsMatchAt(s, p, i) ==
    /\ i >= 1
    /\ i + Len(p) <= Len(s) + 1
    /\ SubSeq(s, i, i + Len(p) - 1) = p

\* String.prototype.includes
Includes(s, p) == \E i \in 1..(Len(s) + 1) : IsMatchAt(s, p, i)

\* String.prototype.endsWith
EndsWith(s, p) == Len(p) <= Len(s) /\ SubSeq(s, Len(s) - Len(p) + 1, Len(s)) = p

\* the least element of a non-empty set of positions
First(positions) == CHOOSE i \in positions : \A j \in positions : i <= j

\* The replacement text of String.prototype.replace / replaceAll for the
\* match of p at position i of s: in the replacement string $$ stands for a
\* dollar sign, $& for the match, $` for the text before the match and $' for
\* the text after it.  k is the position of value the expansion has reached.
RECURSIVE GetSubstitution(_, _, _, _, _)
GetSubstitution(value, k, s, p, i) ==
    LET specials == {j \in k..(Len(value) - 1) :
                        value[j] = "$" /\ value[j + 1] \in {"$", "&", "`", "'"}}
    IN  IF specials = {} THEN SubSeq(value, k, Len(value))
        ELSE LET j == First(specials)
             IN  SubSeq(value, k, j - 1)
                    \o (CASE value[j + 1] = "$" -> <<"$">>
                          [] value[j + 1] = "&" -> p
                          [] value[j + 1] = "`" -> SubSeq(s, 1, i - 1)
                          [] value[j + 1] = "'" -> SubSeq(s, i + Len(p), Len(s)))
                    \o GetSubstitution(value, j + 2, s, p, i)

\* String.prototype.replaceAll(p, value) for a non-empty string p: the
\* replacement of the matches of p in s from position i on, left to right
RECURSIVE ReplaceAllFrom(_, _, _, _)
ReplaceAllFrom(s, p, value, i) ==
    LET matches == {j \in i..Len(s) : IsMatchAt(s, p, j)}
    IN  IF matches = {} THEN SubSeq(s, i, Len(s))
        ELSE LET j == First(matches)
             IN  SubSeq(s, i, j - 1) \o GetSubstitution(value, 1, s, p, j)
                    \o ReplaceAllFrom(s, p, value, j + Len(p))



NAME_PLACEHOLDER ==
    <<"$", "{", "N", "a", "m", "e", "}">>
DATE_PLACEHOLDER ==
    <<"{", "D", "a", "t", "e", "}">>
COURSE_PLACEHOLDER ==
    <<"$", "{", "C", "o", "u", "r", "s", "e", "N", "a", "m", "e", "}">>

\* the loop of replacePlaceholders from its k-th replacement on: ok is FALSE
\* when the function throws, and html is then the placeholder found missing
RECURSIVE ReplaceEach(_, _, _)
ReplaceEach(result, replacements, k) ==
    IF k > Len(replacements) THEN [ok |-> TRUE, html |-> result]
    ELSE IF ~Includes(result, replacements[k][1])
         THEN [ok |-> FALSE, html |-> replacements[k][1]]
         ELSE ReplaceEach(ReplaceAllFrom(result, replacements[k][1], replacements[k][2], 1),
                          replacements, k + 1)

\* replacePlaceholders: the replacements in the order of the loop
replacePlaceholders(template, options) ==
    LET replacements ==
            << <<NAME_PLACEHOLDER, options.recipientName>>,
               <<DATE_PLACEHOLDER, options.issuedDateLabel>>,
               <<COURSE_PLACEHOLDER, ToUpperCase(options.badgeTitle)>> >>
    IN  ReplaceEach(template, replacements, 1)


\* injectBaseHref: baseTag is <base href="file:///.../public/">, and
\* String.prototype.replace with a string pattern replaces the first match
injectBaseHref(template) ==
    LET headTag == <<"<", "h", "e", "a", "d", ">">>
        baseOpen == <<"<", "b", "a", "s", "e">>
        baseTag ==
            <<"<", "b", "a", "s", "e", " ", "h", "r", "e", "f", "=", "\"", "f", "i", "l", "e", ":", "/", "/", "/", "p", "u", "b", "l", "i", "c", "/", "\"", ">">>
        i == First({j \in 1..Len(template) : IsMatchAt(template, headTag, j)})
    IN  IF Includes(template, baseTag) THEN template
        ELSE IF Includes(template, baseOpen) THEN template
        ELSE IF ~Includes(template, headTag) THEN template
        ELSE SubSeq(template, 1, i - 1)
                \o GetSubstitution(headTag \o baseTag, 1, template, headTag, i)
                \o SubSeq(template, i + Len(headTag), Len(template))


mimeTypeFor(filename) ==
    IF EndsWith(filename, <<".", "s", "v", "g">>)
    THEN <<"i", "m", "a", "g", "e", "/", "s", "v", "g", "+", "x", "m", "l">>
    ELSE IF EndsWith(filename, <<".", "p", "n", "g">>)
    THEN <<"i", "m", "a", "g", "e", "/", "p", "n", "g">>
    ELSE IF \/ EndsWith(filename, <<".", "j", "p", "g">>)
            \/ EndsWith(filename, <<".", "j", "p", "e", "g">>)
    THEN <<"i", "m", "a", "g", "e", "/", "j", "p", "e", "g">>
    ELSE <<"a", "p", "p", "l", "i", "c", "a", "t", "i", "o", "n", "/", "o", "c", "t", "e", "t", "-", "s", "t", "r", "e", "a", "m">>

\* Buffer.toString("base64"): a buffer is a sequence of bytes

RECURSIVE Base64(_)
Base64(bytes) ==
    IF Len(bytes) = 0 THEN <<>>
    ELSE LET Base64Digits ==
                 <<"A", "B", "C", "D", "E", "F", "G", "H", "I", "J", "K", "L", "M", "N", "O", "P", "Q", "R", "S", "T", "U", "V", "W", "X", "Y", "Z", "a", "b", "c", "d", "e", "f", "g", "h", "i", "j", "k", "l", "m", "n", "o", "p", "q", "r", "s", "t", "u", "v", "w", "x", "y", "z", "0", "1", "2", "3", "4", "5", "6", "7", "8", "9", "+", "/">>
             b1 == bytes[1]
             b2 == IF Len(bytes) >= 2 THEN bytes[2] ELSE 0
             b3 == IF Len(bytes) >= 3 THEN bytes[3] ELSE 0
             d1 == Base64Digits[(b1 \div 4) + 1]
             d2 == Base64Digits[((b1 % 4) * 16 + (b2 \div 16)) + 1]
             d3 == Base64Digits[((b2 % 16) * 4 + (b3 \div 64)) + 1]
             d4 == Base64Digits[(b3 % 64) + 1]
         IN  IF Len(bytes) = 1 THEN <<d1, d2, "=", "=">>
             ELSE IF Len(bytes) = 2 THEN <<d1, d2, d3, "=">>
             ELSE <<d1, d2, d3, d4>> \o Base64(SubSeq(bytes, 4, Len(bytes)))


SRC_OPEN ==
    <<"s", "r", "c", "=", "\"">>
ASSETS_DIR ==
    <<"a", "s", "s", "e", "t", "s", "/">>
QUOTE == "\""

\* the match of /src="\/?(assets\/[^"]+)"/ that starts at position i of html:
\* None, or Some of the captured path and the position of the closing quote
AssetMatchAt(html, i) ==
    LET a == i + Len(SRC_OPEN)
        b == IF a <= Len(html) /\ html[a] = "/" /\ IsMatchAt(html, ASSETS_DIR, a + 1)
             THEN a + 1 ELSE a
        first == b + Len(ASSETS_DIR)
        quotes == {k \in first..Len(html) : html[k] = QUOTE}
    IN  IF IsMatchAt(html, SRC_OPEN, i) /\ IsMatchAt(html, ASSETS_DIR, b) /\ quotes # {}
        THEN LET q == First(quotes)
             IN  IF q > first THEN Some(<<SubSeq(html, b, q - 1), q>>) ELSE None
        ELSE None

\* [...html.matchAll(/src="\/?(assets\/[^"]+)"/g)]: the captured paths, in order
RECURSIVE AssetMatchesFrom(_, _)
AssetMatchesFrom(html, i) ==
    LET starts == {j \in i..Len(html) : AssetMatchAt(html, j) # None}
    IN  IF starts = {} THEN <<>>
        ELSE LET m == AssetMatchAt(html, First(starts))[1]
             IN  <<m[1]>> \o AssetMatchesFrom(html, m[2] + 1)


\* one turn of the loop of inlineAssetSources, once the asset is fetched
\* with `data:${mimeType};base64,${data.toString("base64")}`
InlineOne(result, relativeSrc, data) ==
    LET dataUri == <<"d", "a", "t", "a", ":">> \o mimeTypeFor(relativeSrc)
                       \o <<";", "b", "a", "s", "e", "6", "4", ",">> \o Base64(data)
    IN  ReplaceAllFrom(result,
                       SRC_OPEN \o relativeSrc \o <<QUOTE>>,
                       SRC_OPEN \o dataUri \o <<QUOTE>>,
                       1)

\* a fetchAsset that turns to the site after any local error
fetchAssetAlwaysFallsBack(local, remote) ==
    IF local.kind = "file"
    THEN [ok |-> TRUE, data |-> local.data, fetched |-> FALSE, error |-> "none"]
    ELSE IF remote.kind = "ok"
    THEN [ok |-> TRUE, data |-> remote.data, fetched |-> TRUE, error |-> "none"]
    ELSE [ok |-> FALSE, data |-> <<>>, fetched |-> TRUE,
          error |-> IF remote.kind = "notOk" THEN "Failed to fetch asset" ELSE remote.kind]

\* fetchAsset: local is the outcome of readFile (a file, ENOENT, or another
\* error), remote the outcome of fetch (an OK response, a non-OK response, or
\* an exception).  fetched tells whether fetch was called.
fetchAsset(local, remote) ==
    IF local.kind = "file"
    THEN [ok |-> TRUE, data |-> local.data, fetched |-> FALSE, error |-> "none"]
    ELSE IF local.kind # "ENOENT"
    THEN [ok |-> FALSE, data |-> <<>>, fetched |-> FALSE, error |-> local.kind]
    ELSE IF remote.kind = "ok"
    THEN [ok |-> TRUE, data |-> remote.data, fetched |-> TRUE, error |-> "none"]
    ELSE [ok |-> FALSE, data |-> <<>>, fetched |-> TRUE,
          error |-> IF remote.kind = "notOk" THEN "Failed to fetch asset" ELSE remote.kind]

\* formatIssuedDate: the en-US long date of the instant issuedAt (instants
\* are numbered as by Now)
formatIssuedDate(issuedAt) ==
    LET labels ==
            << <<"J", "a", "n", "u", "a", "r", "y", " ", "1", ",", " ", "2", "0", "2", "6">>,
               <<"J", "a", "n", "u", "a", "r", "y", " ", "2", ",", " ", "2", "0", "2", "6">>,
               <<"J", "a", "n", "u", "a", "r", "y", " ", "3", ",", " ", "2", "0", "2", "6">> >>
    IN  IF issuedAt \in 1..Len(labels) THEN labels[issuedAt]
        ELSE <<"I", "n", "v", "a", "l", "i", "d", " ", "D", "a", "t", "e">>

\* `awards/${verificationCode}.pdf`; a verification code is an award id
StoragePath(verificationCode) == <<"awards/", verificationCode, ".pdf">>

(***************************************************************************)
(* State.                                                                  *)
(***************************************************************************)
NumRequests == 2
Handlers == 1..NumRequests

\* how many failures of the surroundings (a datastore call that comes back
\* with an error, a certificate that cannot be produced, a delivery that
\* fails) are injected in one run
MaxFaults == 1

VARIABLES
    badges,            \* table badges: set of rows [id, slug]
    people,            \* table people: sequence of rows [id, name, email]
    awards,            \* table awards: sequence of rows
    awardsUnique,      \* whether awards carries UNIQUE (person_id, badge_id)
    resendConfigured,  \* RESEND_API_KEY and RESEND_FROM_EMAIL are both set
    certificates,      \* bucket certificates: award id -> name on awards/{id}.pdf
    outbox,            \* the deliveries handed to the e-mail provider
    faults,            \* the failures injected so far
    pc,                \* per request: the await the handler stands at
    req,               \* per request: its body, as a position in Bodies (0: none yet)
    loc,               \* per request: the handler's local variables
    resp,              \* per request: the response
    rpc, rparams, rresult,  \* a single call of resolveBadgeSlug
    gpc,               \* generateCertificateAndUpload: the await it stands at
    gcalls,            \* the calls of generateCertificateAndUpload so far
    gopts,             \* its options
    gtemplate,         \* the template it downloaded
    ghtml,             \* the document it is building
    gqueue,            \* the asset references still to inline
    gsteps,            \* what the current call has done so far
    gio,               \* how often the current call has called createBucket,
                       \* puppeteer.launch (with success) and browser.close
    gresult,           \* what the last call returned or threw
    fetchLog,          \* the asset reads and fetches of the current call
    bucketExists,      \* the storage bucket certificates exists
    bucket,            \* the objects of the bucket: [path, body, cacheControl]
    uploadLog,         \* the uploads the bucket has accepted, oldest first
    qpc, qcall, qresult,    \* a single call of a read interface of data/awards
    env,               \* the environment: which keys are set
    clients,           \* the module variables supabaseAdminClient and resendClient
                       \* (0: undefined, else the handle)
    created,           \* how many clients of each kind were constructed
    ccalls,            \* the direct calls of the two getters so far
    cresult            \* what the last direct call returned or threw

storeVars == <<badges, people, awards, awardsUnique, resendConfigured,
               certificates, outbox>>
Fault == faults < MaxFaults /\ faults' = faults + 1
handlerVars == <<pc, req, loc, resp>>
resolverVars == <<rpc, rparams, rresult>>
generatorVars == <<gpc, gcalls, gopts, gtemplate, ghtml, gqueue, gsteps, gio, gresult,
                   fetchLog, bucketExists, bucket, uploadLog>>
readerVars == <<qpc, qcall, qresult>>
clientVars == <<env, clients, created, ccalls, cresult>>
\* the state of the library functions that are exercised on their own
libraryVars == <<resolverVars, generatorVars, readerVars>>
vars == <<storeVars, faults, handlerVars, libraryVars, clientVars>>

\* the rows the badges table can hold
BADGE_GSP == [id |-> 1, slug |-> SLUG_GSP]
BADGE_SCS == [id |-> 2, slug |-> SLUG_SCS]

NoLocals ==
    [ name |-> <<>>, email |-> <<>>, description |-> DescriptionOf(None, None),
      slug |-> None, badge |-> 0, personId |-> 0, awardId |-> 0,
      issuedAt |-> 0, certificateUrl |-> None ]

NoResponse ==
    [ status |-> 0, error |-> "none", badgeSlug |-> None, recipientEmail |-> <<>>,
      recipientName |-> <<>>, awardId |-> 0, issuedAt |-> 0,
      personalizedDescription |-> DescriptionOf(None, None),
      certificateUrl |-> None, email |-> [status |-> "none", reason |-> "none"] ]

\* jsonResponse({ error, ... }, status)
ErrorResponse(status, error) ==
    [NoResponse EXCEPT !.status = status, !.error = error]

HandlerInit ==
    /\ pc = [h \in Handlers |-> "idle"]
    /\ req = [h \in Handlers |-> 0]
    /\ loc = [h \in Handlers |-> NoLocals]
    /\ resp = [h \in Handlers |-> NoResponse]

ResolverIdle ==
    /\ rpc = "off"
    /\ rparams = [badgeSlug |-> None, courseId |-> None, courseName |-> None]
    /\ rresult = None

NoGenerateOptions ==
    [recipientName |-> <<>>, issuedAt |-> 0, verificationCode |-> 0, badgeTitle |-> <<>>]
NoGenerateResult == [ok |-> FALSE, error |-> "none", publicUrl |-> None]


\* no call of generateCertificateAndUpload is under way or has been made
GeneratorIdle ==
    /\ gpc = "idle"
    /\ gopts = NoGenerateOptions
    /\ gtemplate = <<>>
    /\ ghtml = <<>>
    /\ gqueue = <<>>
    /\ gcalls = 0
    /\ gsteps = {}
    /\ gio = [createBucket |-> 0, launch |-> 0, close |-> 0]
    /\ gresult = NoGenerateResult
    /\ fetchLog = <<>>
    /\ bucketExists = FALSE
    /\ bucket = {}
    /\ uploadLog = <<>>

ReaderIdle ==
    /\ qpc = "off"
    /\ qcall = [fn |-> "none", arg |-> 0, queryFails |-> FALSE]
    /\ qresult = [kind |-> "none"]

\* no client has been constructed and neither getter has been called
ClientsIdle ==
    /\ clients = [admin |-> 0, resend |-> 0]
    /\ created = [admin |-> 0, resend |-> 0]
    /\ ccalls = 0
    /\ cresult = [fn |-> "none", kind |-> "none", handle |-> 0, constructed |-> FALSE]

\* The tables are empty but for the badges, which only administrators write.
\* The schema document declares people.email UNIQUE and declares no
\* uniqueness of (person_id, badge_id) for the awards; the design relies on the
\* datastore enforcing one.  Both schemas are explored (awardsUnique).
Init ==
    /\ badges \in {{BADGE_GSP, BADGE_SCS}, {BADGE_SCS}}
    /\ people = <<>>
    /\ awards = <<>>
    /\ awardsUnique \in BOOLEAN
    /\ resendConfigured \in BOOLEAN
    /\ certificates = <<>>
    /\ outbox = {}
    /\ faults = 0
    /\ HandlerInit
    /\ ResolverIdle
    /\ GeneratorIdle
    /\ ReaderIdle
    /\ env \in {[serviceRoleKey |-> k, resendApiKey |-> resendConfigured] : k \in BOOLEAN}
    /\ ClientsIdle

(***************************************************************************)
(* The handler POST, one action per await.                                 *)
(***************************************************************************)
Respond(h, response) ==
    /\ resp' = [resp EXCEPT ![h] = response]
    /\ pc' = [pc EXCEPT ![h] = "done"]

\* the handler returns: its local variables are gone
Return(h, response) ==
    /\ Respond(h, response)
    /\ loc' = [loc EXCEPT ![h] = NoLocals]

\* a getter that constructs a client on every call
getSupabaseAdminClientFresh(cached, serviceRoleKey, fresh) ==
    IF ~serviceRoleKey
    THEN [kind |-> "raised", handle |-> 0, cache |-> cached, constructed |-> FALSE]
    ELSE [kind |-> "client", handle |-> fresh, cache |-> fresh, constructed |-> TRUE]

\* getSupabaseAdminClient: cached is the module variable, fresh the handle
\* createClient would return; cache is the module variable afterwards
getSupabaseAdminClient(cached, serviceRoleKey, fresh) ==
    IF cached # 0
    THEN [kind |-> "client", handle |-> cached, cache |-> cached, constructed |-> FALSE]
    ELSE IF ~serviceRoleKey
    THEN [kind |-> "raised", handle |-> 0, cache |-> cached, constructed |-> FALSE]
    ELSE [kind |-> "client", handle |-> fresh, cache |-> fresh, constructed |-> TRUE]

\* request.json(), the two safeParse calls, getSupabaseAdminClient and
\* resolveBadgeSlug (lines 92-150)
ReceiveRequest(h, b) ==
    /\ pc[h] = "idle"
    /\ \A g \in Handlers : g < h => pc[g] # "idle"
    /\ req' = [req EXCEPT ![h] = b]
    /\ LET body == Bodies[b]
           p == ParsePayload(body)
           slug == resolveBadgeSlug(p)
           client == getSupabaseAdminClient(clients.admin, env.serviceRoleKey,
                                            created.admin + 1)
       IN  IF ~body.json
           THEN /\ Return(h, ErrorResponse(400, "Invalid JSON payload"))
                /\ UNCHANGED <<clients, created>>
           ELSE IF ~p.ok
           THEN /\ Return(h, ErrorResponse(400, "Invalid payload"))
                /\ UNCHANGED <<clients, created>>
           ELSE /\ client.kind = "client"
                /\ clients' = [clients EXCEPT !.admin = client.cache]
                /\ created' = [created EXCEPT
                                  !.admin = @ + (IF client.constructed THEN 1 ELSE 0)]
                /\ IF slug = None
                   THEN Return(h, ErrorResponse(400,
                                                "Badge could not be resolved from payload"))
                   ELSE /\ loc' = [loc EXCEPT ![h] =
                                      [NoLocals EXCEPT !.name = p.name,
                                                       !.email = p.email,
                                                       !.description = p.description,
                                                       !.slug = slug]]
                        /\ pc' = [pc EXCEPT ![h] = "badgeLookup"]
                        /\ UNCHANGED resp
    /\ UNCHANGED <<storeVars, libraryVars, env, ccalls, cresult>>
    /\ UNCHANGED faults

\* getSupabaseAdminClient throws at line 145, outside any try: the handler
\* ends with the exception and sends no response of its own
ClientConstructionThrows(h, b) ==
    /\ pc[h] = "idle"
    /\ \A g \in Handlers : g < h => pc[g] # "idle"
    /\ Bodies[b].json /\ ParsePayload(Bodies[b]).ok
    /\ getSupabaseAdminClient(clients.admin, env.serviceRoleKey,
                              created.admin + 1).kind = "raised"
    /\ req' = [req EXCEPT ![h] = b]
    /\ pc' = [pc EXCEPT ![h] = "threw"]
    /\ UNCHANGED <<storeVars, libraryVars, clientVars, loc, resp>>
    /\ UNCHANGED faults

\* from("badges").select().eq("slug", resolvedBadgeSlug).single()  (lines 153-164)
BadgesWithSlug(slug) == {b \in badges : b.slug = slug}

\* a badge lookup that goes on without a badge
BadgeLookupOptimistic(h) ==
    /\ pc[h] = "badgeLookup"
    /\ loc' = [loc EXCEPT ![h].badge =
                  IF Cardinality(BadgesWithSlug(loc[h].slug[1])) = 1
                  THEN (CHOOSE b \in BadgesWithSlug(loc[h].slug[1]) : TRUE).id
                  ELSE 0]
    /\ pc' = [pc EXCEPT ![h] = "personLookup"]
    /\ UNCHANGED resp
    /\ UNCHANGED <<storeVars, libraryVars, clientVars, req>>
    /\ UNCHANGED faults

BadgeLookup(h) ==
    /\ pc[h] = "badgeLookup"
    /\ IF Cardinality(BadgesWithSlug(loc[h].slug[1])) = 1
       THEN /\ loc' = [loc EXCEPT ![h].badge =
                          (CHOOSE b \in BadgesWithSlug(loc[h].slug[1]) : TRUE).id]
            /\ pc' = [pc EXCEPT ![h] = "personLookup"]
            /\ UNCHANGED resp
       ELSE /\ Return(h, ErrorResponse(404, "Badge not found"))
    /\ UNCHANGED <<storeVars, libraryVars, clientVars, req>>
    /\ UNCHANGED faults

\* the badge query comes back with an error: badgeError is set (line 159)
BadgeLookupFails(h) ==
    /\ pc[h] = "badgeLookup"
    /\ Return(h, ErrorResponse(404, "Badge not found"))
    /\ UNCHANGED <<storeVars, libraryVars, clientVars, req>>
    /\ Fault

PeopleWithEmail(email) == {i \in 1..Len(people) : people[i].email = email}

\* a person lookup that overwrites the stored name with the payload's
PersonLookupRenames(h) ==
    /\ pc[h] = "personLookup"
    /\ LET normalizedEmail == NormalizedEmail(loc[h].email)
           found == PeopleWithEmail(normalizedEmail)
       IN  IF found # {}
           THEN /\ LET i == CHOOSE i \in found : TRUE
                   IN  /\ people' = [people EXCEPT ![i].name = loc[h].name]
                       /\ loc' = [loc EXCEPT ![h].email = normalizedEmail,
                                              ![h].personId = people[i].id]
                /\ pc' = [pc EXCEPT ![h] = "awardLookup"]
           ELSE /\ loc' = [loc EXCEPT ![h].email = normalizedEmail]
                /\ pc' = [pc EXCEPT ![h] = "personInsert"]
                /\ UNCHANGED people
    /\ UNCHANGED <<badges, awards, awardsUnique, resendConfigured, certificates,
                   outbox, libraryVars, clientVars, req, resp, faults>>

\* from("people").select().eq("email", normalizedEmail).maybeSingle()  (lines 167-183)
PersonLookup(h) ==
    /\ pc[h] = "personLookup"
    /\ LET normalizedEmail == NormalizedEmail(loc[h].email)
           found == PeopleWithEmail(normalizedEmail)
       IN  IF Cardinality(found) > 1
           THEN /\ Return(h, ErrorResponse(500, "Failed to lookup person"))
           ELSE IF found # {}
           THEN /\ loc' = [loc EXCEPT ![h].email = normalizedEmail,
                                      ![h].personId = people[CHOOSE i \in found : TRUE].id]
                /\ pc' = [pc EXCEPT ![h] = "awardLookup"]
                /\ UNCHANGED resp
           ELSE /\ loc' = [loc EXCEPT ![h].email = normalizedEmail]
                /\ pc' = [pc EXCEPT ![h] = "personInsert"]
                /\ UNCHANGED resp
    /\ UNCHANGED <<storeVars, libraryVars, clientVars, req>>
    /\ UNCHANGED faults

PersonLookupFails(h) ==
    /\ pc[h] = "personLookup"
    /\ Return(h, ErrorResponse(500, "Failed to lookup person"))
    /\ UNCHANGED <<storeVars, libraryVars, clientVars, req>>
    /\ Fault

\* from("people").insert({ name, email: normalizedEmail }).select("id").single()
\* (lines 184-198); people.email is UNIQUE, so a second row for the e-mail
\* is refused by the table
PersonInsert(h) ==
    /\ pc[h] = "personInsert"
    /\ IF PeopleWithEmail(loc[h].email) # {}
       THEN /\ Return(h, ErrorResponse(500, "Failed to create person"))
            /\ UNCHANGED people
       ELSE /\ people' = Append(people, [ id |-> Len(people) + 1,
                                          name |-> loc[h].name,
                                          email |-> loc[h].email ])
            /\ loc' = [loc EXCEPT ![h].personId = Len(people) + 1]
            /\ pc' = [pc EXCEPT ![h] = "awardLookup"]
            /\ UNCHANGED resp
    /\ UNCHANGED <<badges, awards, awardsUnique, resendConfigured, certificates,
                   outbox, libraryVars, clientVars, req>>
    /\ UNCHANGED faults

PersonInsertFails(h) ==
    /\ pc[h] = "personInsert"
    /\ Return(h, ErrorResponse(500, "Failed to create person"))
    /\ UNCHANGED <<storeVars, libraryVars, clientVars, req>>
    /\ Fault

AwardsOf(personId, badge) ==
    {i \in 1..Len(awards) : awards[i].person_id = personId /\ awards[i].badge_id = badge}

\* new Date().toISOString() of line 216, read by request h
Now(h) == h

\* the handler without its idempotency read: every request goes on to insert
AwardLookupNeverFinds(h) ==
    /\ pc[h] = "awardLookup"
    /\ loc' = [loc EXCEPT ![h].issuedAt = Now(h)]
    /\ pc' = [pc EXCEPT ![h] = "awardInsert"]
    /\ UNCHANGED <<storeVars, libraryVars, clientVars, req, resp, faults>>

\* an award lookup that stamps the reused award with the time of the replay
AwardLookupStampsNow(h) ==
    /\ pc[h] = "awardLookup"
    /\ LET found == AwardsOf(loc[h].personId, loc[h].badge)
       IN  IF found # {}
           THEN /\ loc' = [loc EXCEPT ![h].awardId = awards[CHOOSE i \in found : TRUE].id,
                                      ![h].issuedAt = Now(h)]
                /\ pc' = [pc EXCEPT ![h] = "certificate"]
           ELSE /\ loc' = [loc EXCEPT ![h].issuedAt = Now(h)]
                /\ pc' = [pc EXCEPT ![h] = "awardInsert"]
    /\ UNCHANGED <<storeVars, libraryVars, clientVars, req, resp, faults>>

\* from("awards").select().eq("person_id").eq("badge_id").maybeSingle()
\* (lines 201-220): more than one matching row is an error of maybeSingle
AwardLookup(h) ==
    /\ pc[h] = "awardLookup"
    /\ LET found == AwardsOf(loc[h].personId, loc[h].badge)
       IN  IF Cardinality(found) > 1
           THEN /\ Return(h, ErrorResponse(500, "Failed to lookup existing award"))
           ELSE IF found # {}
           THEN /\ LET row == awards[CHOOSE i \in found : TRUE]
                   IN  loc' = [loc EXCEPT ![h].awardId = row.id,
                                          ![h].issuedAt = row.issued_at]
                /\ pc' = [pc EXCEPT ![h] = "certificate"]
                /\ UNCHANGED resp
           ELSE /\ loc' = [loc EXCEPT ![h].issuedAt = Now(h)]
                /\ pc' = [pc EXCEPT ![h] = "awardInsert"]
                /\ UNCHANGED resp
    /\ UNCHANGED <<storeVars, libraryVars, clientVars, req>>
    /\ UNCHANGED faults

AwardLookupFails(h) ==
    /\ pc[h] = "awardLookup"
    /\ Return(h, ErrorResponse(500, "Failed to lookup existing award"))
    /\ UNCHANGED <<storeVars, libraryVars, clientVars, req>>
    /\ Fault

\* an award insert that writes over the first row of the table
AwardInsertOverwrites(h) ==
    /\ pc[h] = "awardInsert"
    /\ LET row == [ id |-> 1, person_id |-> loc[h].personId,
                    badge_id |-> loc[h].badge, issued_at |-> loc[h].issuedAt,
                    personalized_description |-> loc[h].description ]
       IN  awards' = IF awards = <<>> THEN <<row>> ELSE [awards EXCEPT ![1] = row]
    /\ loc' = [loc EXCEPT ![h].awardId = 1]
    /\ pc' = [pc EXCEPT ![h] = "certificate"]
    /\ UNCHANGED <<badges, people, awardsUnique, resendConfigured, certificates,
                   outbox, libraryVars, clientVars, req, resp, faults>>

\* from("awards").insert({...}).select("id, issued_at").single()  (lines 222-242)
AwardInsert(h) ==
    /\ pc[h] = "awardInsert"
    /\ IF awardsUnique /\ AwardsOf(loc[h].personId, loc[h].badge) # {}
       THEN /\ Return(h, ErrorResponse(500, "Failed to create award"))
            /\ UNCHANGED awards
       ELSE /\ awards' = Append(awards,
                                [ id |-> Len(awards) + 1,
                                  person_id |-> loc[h].personId,
                                  badge_id |-> loc[h].badge,
                                  issued_at |-> loc[h].issuedAt,
                                  personalized_description |-> loc[h].description ])
            /\ loc' = [loc EXCEPT ![h].awardId = Len(awards) + 1]
            /\ pc' = [pc EXCEPT ![h] = "certificate"]
            /\ UNCHANGED resp
    /\ UNCHANGED <<badges, people, awardsUnique, resendConfigured, certificates,
                   outbox, libraryVars, clientVars, req>>
    /\ UNCHANGED faults

\* an award insert that reports an error although the row was written
AwardInsertFailsAfterWrite(h) ==
    /\ pc[h] = "awardInsert"
    /\ awards' = Append(awards,
                        [ id |-> Len(awards) + 1,
                          person_id |-> loc[h].personId,
                          badge_id |-> loc[h].badge,
                          issued_at |-> loc[h].issuedAt,
                          personalized_description |-> loc[h].description ])
    /\ Return(h, ErrorResponse(500, "Failed to create award"))
    /\ UNCHANGED <<badges, people, awardsUnique, resendConfigured, certificates,
                   outbox, libraryVars, clientVars, req>>
    /\ Fault

AwardInsertFails(h) ==
    /\ pc[h] = "awardInsert"
    /\ Return(h, ErrorResponse(500, "Failed to create award"))
    /\ UNCHANGED <<storeVars, libraryVars, clientVars, req>>
    /\ Fault

\* an upload that stores the certificate under a key of its own
CertificateUploadedUnderNewKey(h) ==
    /\ pc[h] = "certificate"
    /\ certificates' = ((loc[h].awardId + Len(awards)) :> loc[h].name) @@ certificates
    /\ loc' = [loc EXCEPT ![h].certificateUrl = Some(loc[h].awardId)]
    /\ pc' = [pc EXCEPT ![h] = "notify"]
    /\ UNCHANGED <<badges, people, awards, awardsUnique, resendConfigured, outbox,
                   libraryVars, clientVars, req, resp>>
    /\ UNCHANGED faults

\* an upload whose certificate carries the name of the stored person
CertificateUploadedStoredName(h) ==
    /\ pc[h] = "certificate"
    /\ certificates' = (loc[h].awardId :> people[loc[h].personId].name) @@ certificates
    /\ loc' = [loc EXCEPT ![h].certificateUrl = Some(loc[h].awardId)]
    /\ pc' = [pc EXCEPT ![h] = "notify"]
    /\ UNCHANGED <<badges, people, awards, awardsUnique, resendConfigured, outbox,
                   libraryVars, clientVars, req, resp>>
    /\ UNCHANGED faults

\* generateCertificateAndUpload succeeds: awards/{id}.pdf is written with
\* upsert and its public URL kept  (lines 247-254)
CertificateUploaded(h) ==
    /\ pc[h] = "certificate"
    /\ certificates' = (loc[h].awardId :> loc[h].name) @@ certificates
    /\ loc' = [loc EXCEPT ![h].certificateUrl = Some(loc[h].awardId)]
    /\ pc' = [pc EXCEPT ![h] = "notify"]
    /\ UNCHANGED <<badges, people, awards, awardsUnique, resendConfigured, outbox,
                   libraryVars, clientVars, req, resp>>
    /\ UNCHANGED faults

\* a certificate failure that aborts the request
CertificateFailsAborts(h) ==
    /\ pc[h] = "certificate"
    /\ Return(h, ErrorResponse(500, "Failed to generate certificate"))
    /\ UNCHANGED <<storeVars, libraryVars, clientVars, req>>
    /\ Fault

\* a certificate failure that still hands out the URL of awards/{id}.pdf
CertificateFailsKeepsUrl(h) ==
    /\ pc[h] = "certificate"
    /\ loc' = [loc EXCEPT ![h].certificateUrl = Some(loc[h].awardId)]
    /\ pc' = [pc EXCEPT ![h] = "notify"]
    /\ UNCHANGED <<storeVars, libraryVars, clientVars, req, resp>>
    /\ Fault

\* generateCertificateAndUpload throws; the catch logs and goes on (lines 255-260)
CertificateFails(h) ==
    /\ pc[h] = "certificate"
    /\ pc' = [pc EXCEPT ![h] = "notify"]
    /\ UNCHANGED <<storeVars, libraryVars, clientVars, req, resp, loc>>
    /\ Fault

\* a success response that leaves the certificate URL out
OkResponseWithoutCertificate(h, emailStatus) ==
    [ status |-> 200, error |-> "none", badgeSlug |-> loc[h].slug,
      recipientEmail |-> loc[h].email, recipientName |-> loc[h].name,
      awardId |-> loc[h].awardId, issuedAt |-> loc[h].issuedAt,
      personalizedDescription |-> loc[h].description,
      certificateUrl |-> None, email |-> emailStatus ]

\* jsonResponse({ status: "ok", ... })  (lines 273-287)
OkResponse(h, emailStatus) ==
    [ status |-> 200, error |-> "none", badgeSlug |-> loc[h].slug,
      recipientEmail |-> loc[h].email, recipientName |-> loc[h].name,
      awardId |-> loc[h].awardId, issuedAt |-> loc[h].issuedAt,
      personalizedDescription |-> loc[h].description,
      certificateUrl |-> loc[h].certificateUrl, email |-> emailStatus ]

\* the outcomes of resend.emails.send: it returns without error, it returns an
\* error, or it throws
SKIPPED_REUSED == [status |-> "skipped", reason |-> "existing award reused"]
SKIPPED_UNCONFIGURED == [status |-> "skipped", reason |-> "Resend not configured"]
SENT == [status |-> "sent", reason |-> "none"]
FAILED_PROVIDER == [status |-> "failed", reason |-> "provider error"]
FAILED_THROWN == [status |-> "failed", reason |-> "exception"]
DeliveryOutcomes == {SENT, FAILED_PROVIDER, FAILED_THROWN}

\* a sender that calls the provider although it is not configured
NotifySkippedInvokesProvider(h) ==
    /\ pc[h] = "notify"
    /\ ~resendConfigured
    /\ outbox' = outbox \cup {[request |-> h, to |-> loc[h].email,
                               recipientName |-> loc[h].name,
                               personalizedDescription |-> loc[h].description,
                               verificationCode |-> loc[h].awardId]}
    /\ Return(h, OkResponse(h, FAILED_PROVIDER))
    /\ UNCHANGED <<badges, people, awards, awardsUnique, resendConfigured,
                   certificates, libraryVars, clientVars, req, faults>>

\* sendAwardNotification: no client or no from address: skipped, nothing sent
\* (lines 71-76 of the sender); the handler then answers (lines 262-287)
NotifySkipped(h) ==
    /\ pc[h] = "notify"
    /\ ~resendConfigured
    /\ Return(h, OkResponse(h, SKIPPED_UNCONFIGURED))
    /\ UNCHANGED <<storeVars, libraryVars, clientVars, req>>
    /\ UNCHANGED faults

\* a sender that lets the exception of the provider through: the handler
\* ends with it
NotifyDeliveryRethrows(h, outcome) ==
    /\ pc[h] = "notify"
    /\ resendConfigured
    /\ outbox' = outbox \cup {[request |-> h, to |-> loc[h].email,
                               recipientName |-> loc[h].name,
                               personalizedDescription |-> loc[h].description,
                               verificationCode |-> loc[h].awardId]}
    /\ IF outcome = FAILED_THROWN
       THEN Return(h, ErrorResponse(500, "Internal Server Error"))
       ELSE Return(h, OkResponse(h, outcome))
    /\ UNCHANGED <<badges, people, awards, awardsUnique, resendConfigured,
                   certificates, libraryVars, clientVars, req>>
    /\ IF outcome = SENT THEN UNCHANGED faults ELSE Fault

\* sendAwardNotification hands the message to the provider (lines 186-222 of
\* the sender); the handler then answers (lines 262-287)
NotifyDelivery(h, outcome) ==
    /\ pc[h] = "notify"
    /\ resendConfigured
    /\ outbox' = outbox \cup {[request |-> h, to |-> loc[h].email,
                               recipientName |-> loc[h].name,
                               personalizedDescription |-> loc[h].description,
                               verificationCode |-> loc[h].awardId]}
    /\ Return(h, OkResponse(h, outcome))
    /\ UNCHANGED <<badges, people, awards, awardsUnique, resendConfigured,
                   certificates, libraryVars, clientVars, req>>
    /\ IF outcome = SENT THEN UNCHANGED faults ELSE Fault

\* one step of the handler of request h
Step(h) ==
    \/ \E b \in DOMAIN Bodies : ReceiveRequest(h, b)
    \/ \E b \in DOMAIN Bodies : ClientConstructionThrows(h, b)
    \/ BadgeLookup(h)
    \/ BadgeLookupFails(h)
    \/ PersonLookup(h)
    \/ PersonLookupFails(h)
    \/ PersonInsert(h)
    \/ PersonInsertFails(h)
    \/ AwardLookup(h)
    \/ AwardLookupFails(h)
    \/ AwardInsert(h)
    \/ AwardInsertFails(h)
    \/ CertificateUploaded(h)
    \/ CertificateFails(h)
    \/ NotifySkipped(h)
    \/ \E o \in DeliveryOutcomes : NotifyDelivery(h, o)

\* Requests are handled concurrently: any handler may take the next step.
Next == \E h \in Handlers : Step(h)

Spec == Init /\ [][Next]_vars

\* Requests arrive one after the other: a request is sent only when every
\* earlier one has been answered.
InFlight == {h \in Handlers : pc[h] \notin {"idle", "done", "threw"}}
SeqNext == \E h \in Handlers : InFlight \subseteq {h} /\ Step(h)

SeqSpec == Init /\ [][SeqNext]_vars

(***************************************************************************)
(* A single call of resolveBadgeSlug on every combination of candidates.   *)
(***************************************************************************)
CandidateInputs ==
    { None, Some(IN_EMPTY), Some(IN_BLANK), Some(IN_GSP_PADDED), Some(IN_SCS),
      Some(IN_SCS_TITLE), Some(IN_UNKNOWN), Some(IN_CONSTRUCTOR) }

ResolverInit ==
    /\ badges = {BADGE_GSP, BADGE_SCS}
    /\ people = <<>>
    /\ awards = <<>>
    /\ awardsUnique = FALSE
    /\ resendConfigured = FALSE
    /\ certificates = <<>>
    /\ outbox = {}
    /\ faults = 0
    /\ HandlerInit
    /\ rpc = "call"
    /\ rparams \in [badgeSlug : CandidateInputs, courseId : CandidateInputs,
                    courseName : CandidateInputs]
    /\ rresult = None
    /\ GeneratorIdle
    /\ ReaderIdle
    /\ env = [serviceRoleKey |-> TRUE, resendApiKey |-> FALSE]
    /\ ClientsIdle

ResolveCall ==
    /\ rpc = "call"
    /\ rresult' = resolveBadgeSlug(rparams)
    /\ rpc' = "returned"
    /\ UNCHANGED <<storeVars, faults, handlerVars, rparams, generatorVars, readerVars,
                   clientVars>>

ResolverNext == ResolveCall

ResolverSpec == ResolverInit /\ [][ResolverNext]_vars

(***************************************************************************)
(* generateCertificateAndUpload, one action per await, called on its own.  *)
(***************************************************************************)
\* the templates an administrator may have uploaded
\* full has the three placeholders and an asset, noDate and noName lack a
\* placeholder, slash refers to an asset with a leading slash and to one without
Templates ==
    LET full ==
            <<"<", "h", "e", "a", "d", ">", "<", "p", ">", "$", "{", "N", "a", "m", "e", "}", "<", "/", "p", ">", "<", "p", ">", "{", "D", "a", "t", "e", "}", "<", "/", "p", ">", "<", "p", ">", "$", "{", "C", "o", "u", "r", "s", "e", "N", "a", "m", "e", "}", "<", "/", "p", ">", "<", "i", "m", "g", " ", "s", "r", "c", "=", "\"", "a", "s", "s", "e", "t", "s", "/", "a", ".", "p", "n", "g", "\"", ">">>
        noDate ==
            <<"<", "h", "e", "a", "d", ">", "<", "p", ">", "$", "{", "N", "a", "m", "e", "}", "<", "/", "p", ">", "<", "p", ">", "$", "{", "C", "o", "u", "r", "s", "e", "N", "a", "m", "e", "}", "<", "/", "p", ">">>
        noName ==
            <<"<", "h", "e", "a", "d", ">", "<", "p", ">", "{", "D", "a", "t", "e", "}", "<", "/", "p", ">", "<", "p", ">", "$", "{", "C", "o", "u", "r", "s", "e", "N", "a", "m", "e", "}", "<", "/", "p", ">">>
        slash ==
            <<"<", "h", "e", "a", "d", ">", "<", "p", ">", "$", "{", "N", "a", "m", "e", "}", "<", "/", "p", ">", "<", "p", ">", "{", "D", "a", "t", "e", "}", "<", "/", "p", ">", "<", "p", ">", "$", "{", "C", "o", "u", "r", "s", "e", "N", "a", "m", "e", "}", "<", "/", "p", ">", "<", "i", "m", "g", " ", "s", "r", "c", "=", "\"", "/", "a", "s", "s", "e", "t", "s", "/", "b", ".", "s", "v", "g", "\"", ">", "<", "i", "m", "g", " ", "s", "r", "c", "=", "\"", "a", "s", "s", "e", "t", "s", "/", "a", ".", "p", "n", "g", "\"", ">">>
    IN  {full, noDate, noName, slash}


MaxGenerations == 2
MaxCodes == 2

\* the options the handler passes: the verification code is the id of an
\* award row and issuedAt its issued_at, which the code identifies; the
\* recipient names are a plain one and two that read like placeholders
GenerateOptions ==
    LET dateToken == <<"{", "D", "a", "t", "e", "}">>
        courseToken == <<"$", "{", "C", "o", "u", "r", "s", "e", "N", "a", "m", "e", "}">>
        title == <<"G", "s", "p">>
    IN  { [ recipientName |-> name, issuedAt |-> code, verificationCode |-> code,
            badgeTitle |-> title ] :
              name \in {NAME_JANE, dateToken, courseToken}, code \in 1..MaxCodes }

\* the call is over with an exception: its locals are gone
GenerateThrows(error) ==
    /\ gpc' = "idle"
    /\ gresult' = [ok |-> FALSE, error |-> error, publicUrl |-> None]
    /\ gopts' = NoGenerateOptions
    /\ gtemplate' = <<>>
    /\ ghtml' = <<>>
    /\ gqueue' = <<>>

\* generateCertificateAndUpload(options) is called; generateCertificatePdf and
\* buildCertificateHtml lead to downloadTemplateFromStorage, which starts
\* with ensurePublicBucket
GenerateCall(options) ==
    /\ gpc = "idle"
    /\ gcalls < MaxGenerations
    /\ gcalls' = gcalls + 1
    /\ gpc' = "templateBucket"
    /\ gopts' = options
    /\ gsteps' = {}
    /\ gio' = [createBucket |-> 0, launch |-> 0, close |-> 0]
    /\ fetchLog' = <<>>
    /\ gresult' = NoGenerateResult
    /\ UNCHANGED <<gtemplate, ghtml, gqueue, bucketExists, bucket, uploadLog>>
    /\ UNCHANGED <<storeVars, faults, handlerVars, resolverVars, readerVars, clientVars>>

\* what storage.getBucket can answer: the bucket, a 404 error, neither data
\* nor error, or another error

\* an ensurePublicBucket that goes on to createBucket after any lookup error
ensurePublicBucketCreatesOnError(lookup, createFails) ==
    IF lookup = "data"
    THEN [ok |-> TRUE, attempted |-> FALSE, created |-> FALSE, error |-> "none"]
    ELSE IF createFails
    THEN [ok |-> FALSE, attempted |-> TRUE, created |-> FALSE,
          error |-> "Failed to create bucket"]
    ELSE [ok |-> TRUE, attempted |-> TRUE, created |-> TRUE, error |-> "none"]

\* ensurePublicBucket: attempted tells whether createBucket was called,
\* created whether it succeeded; ok is FALSE when the function throws
ensurePublicBucket(lookup, createFails) ==
    IF lookup = "data"
    THEN [ok |-> TRUE, attempted |-> FALSE, created |-> FALSE, error |-> "none"]
    ELSE IF lookup = "error"
    THEN [ok |-> FALSE, attempted |-> FALSE, created |-> FALSE,
          error |-> "Failed to check bucket"]
    ELSE IF createFails
    THEN [ok |-> FALSE, attempted |-> TRUE, created |-> FALSE,
          error |-> "Failed to create bucket"]
    ELSE [ok |-> TRUE, attempted |-> TRUE, created |-> TRUE, error |-> "none"]

\* ensurePublicBucket, before the template download and before the upload
EnsureBucket(lookup, createFails) ==
    /\ gpc \in {"templateBucket", "uploadBucket"}
    /\ lookup \in (IF bucketExists THEN {"data", "error"} ELSE {"notFound", "nothing", "error"})
    /\ LET r == ensurePublicBucket(lookup, createFails)
       IN  /\ bucketExists' = (bucketExists \/ r.created)
           /\ gio' = [gio EXCEPT !.createBucket = @ + (IF r.attempted THEN 1 ELSE 0)]
           /\ IF r.ok
              THEN /\ gpc' = IF gpc = "templateBucket" THEN "download" ELSE "upload"
                   /\ UNCHANGED <<gopts, gtemplate, ghtml, gqueue, gresult>>
              ELSE GenerateThrows(r.error)
    /\ UNCHANGED <<gcalls, gsteps, fetchLog, bucket, uploadLog>>
    /\ UNCHANGED <<storeVars, faults, handlerVars, resolverVars, readerVars, clientVars>>

\* a download that removes the stored certificate when the template is missing
DownloadTemplateDropsOld(outcome) ==
    /\ gpc = "download"
    /\ IF outcome.kind # "ok"
       THEN /\ GenerateThrows(outcome.kind)
            /\ bucket' = {o \in bucket : o.path # StoragePath(gopts.verificationCode)}
            /\ UNCHANGED gsteps
       ELSE LET withBase == injectBaseHref(outcome.template)
                withValues ==
                    replacePlaceholders(withBase,
                        [ recipientName |-> gopts.recipientName,
                          issuedDateLabel |-> formatIssuedDate(gopts.issuedAt),
                          badgeTitle |-> gopts.badgeTitle ])
            IN  /\ UNCHANGED bucket
                /\ IF ~withValues.ok
                   THEN /\ GenerateThrows("Certificate template missing placeholder")
                        /\ UNCHANGED gsteps
                   ELSE /\ gtemplate' = outcome.template
                        /\ ghtml' = withValues.html
                        /\ gqueue' = AssetMatchesFrom(withValues.html, 1)
                        /\ gsteps' = gsteps \cup {"substituted"}
                        /\ gpc' = IF AssetMatchesFrom(withValues.html, 1) = <<>>
                                  THEN "render" ELSE "inline"
                        /\ UNCHANGED <<gopts, gresult>>
    /\ UNCHANGED <<gcalls, gio, fetchLog, bucketExists, uploadLog>>
    /\ UNCHANGED <<storeVars, faults, handlerVars, resolverVars, readerVars, clientVars>>

\* downloadTemplateFromStorage, then injectBaseHref, replacePlaceholders and
\* the matchAll of inlineAssetSources, which run without an await in between
DownloadTemplate(outcome) ==
    /\ gpc = "download"
    /\ IF outcome.kind # "ok"
       THEN /\ GenerateThrows(outcome.kind)
            /\ UNCHANGED gsteps
       ELSE LET withBase == injectBaseHref(outcome.template)
                withValues ==
                    replacePlaceholders(withBase,
                        [ recipientName |-> gopts.recipientName,
                          issuedDateLabel |-> formatIssuedDate(gopts.issuedAt),
                          badgeTitle |-> gopts.badgeTitle ])
            IN  IF ~withValues.ok
                THEN /\ GenerateThrows("Certificate template missing placeholder")
                     /\ UNCHANGED gsteps
                ELSE /\ gtemplate' = outcome.template
                     /\ ghtml' = withValues.html
                     /\ gqueue' = AssetMatchesFrom(withValues.html, 1)
                     /\ gsteps' = gsteps \cup {"substituted"}
                     /\ gpc' = IF AssetMatchesFrom(withValues.html, 1) = <<>>
                               THEN "render" ELSE "inline"
                     /\ UNCHANGED <<gopts, gresult>>
    /\ UNCHANGED <<gcalls, gio, fetchLog, bucketExists, bucket, uploadLog>>
    /\ UNCHANGED <<storeVars, faults, handlerVars, resolverVars, readerVars, clientVars>>

\* what readFile and fetch can answer for an asset

\* one turn of the loop of inlineAssetSources: fetchAsset, then the replaceAll
InlineAsset(localKind, remoteKind) ==
    /\ gpc = "inline"
    /\ LET relativeSrc == Head(gqueue)
           \* the bytes of the file under public/assets and on the deployed site
           bytes == IF EndsWith(relativeSrc, <<".", "p", "n", "g">>)
                    THEN <<137, 80, 78>> ELSE <<60, 115>>
           asset == fetchAsset(
                        [ kind |-> localKind,
                          data |-> IF localKind = "file" THEN bytes ELSE <<>> ],
                        [ kind |-> remoteKind,
                          data |-> IF remoteKind = "ok" THEN bytes ELSE <<>> ])
       IN  /\ asset.fetched \/ remoteKind = "ok"
           /\ fetchLog' = Append(fetchLog,
                                 [ src |-> relativeSrc, local |-> localKind,
                                   remote |-> IF asset.fetched THEN remoteKind ELSE "none",
                                   fetched |-> asset.fetched, ok |-> asset.ok ])
           /\ IF asset.ok
              THEN /\ ghtml' = InlineOne(ghtml, relativeSrc, asset.data)
                   /\ gqueue' = Tail(gqueue)
                   /\ gpc' = IF Tail(gqueue) = <<>> THEN "render" ELSE "inline"
                   /\ UNCHANGED <<gopts, gtemplate, gresult>>
              ELSE GenerateThrows(asset.error)
    /\ UNCHANGED <<gcalls, gsteps, gio, bucketExists, bucket, uploadLog>>
    /\ UNCHANGED <<storeVars, faults, handlerVars, resolverVars, readerVars, clientVars>>

\* htmlToPdf up to its first await: launchBrowser; when the launch fails no
\* browser exists and the call is over  (lines 185-197)
LaunchBrowser(launched) ==
    /\ gpc = "render"
    /\ IF launched
       THEN /\ gio' = [gio EXCEPT !.launch = @ + 1]
            /\ gpc' = "page"
            /\ UNCHANGED <<gopts, gtemplate, ghtml, gqueue, gresult>>
       ELSE /\ GenerateThrows("Failed to launch")
            /\ UNCHANGED gio
    /\ UNCHANGED <<gcalls, gsteps, fetchLog, bucketExists, bucket, uploadLog>>
    /\ UNCHANGED <<storeVars, faults, handlerVars, resolverVars, readerVars, clientVars>>

\* a renderer that closes the browser on the success path only
RenderPdfLeaksOnFailure(failure, closeFails) ==
    /\ gpc = "page"
    /\ IF failure # "none"
       THEN /\ GenerateThrows(failure)
            /\ UNCHANGED <<gsteps, gio>>
       ELSE /\ gio' = [gio EXCEPT !.close = @ + 1]
            /\ IF closeFails
               THEN /\ GenerateThrows("close")
                    /\ UNCHANGED gsteps
               ELSE /\ gsteps' = gsteps \cup {"rendered"}
                    /\ gpc' = "uploadBucket"
                    /\ UNCHANGED <<gopts, gtemplate, ghtml, gqueue, gresult>>
    /\ UNCHANGED <<gcalls, fetchLog, bucketExists, bucket, uploadLog>>
    /\ UNCHANGED <<storeVars, faults, handlerVars, resolverVars, readerVars, clientVars>>

\* the try block of htmlToPdf and its finally: newPage, setContent or page.pdf
\* may throw (failure), browser.close runs in every case and may throw itself;
\* the PDF is returned when nothing threw  (lines 199-240)
RenderPdf(failure, closeFails) ==
    /\ gpc = "page"
    /\ gio' = [gio EXCEPT !.close = @ + 1]
    /\ IF failure # "none"
       THEN /\ GenerateThrows(failure)
            /\ UNCHANGED gsteps
       ELSE IF closeFails
       THEN /\ GenerateThrows("close")
            /\ UNCHANGED gsteps
       ELSE /\ gsteps' = gsteps \cup {"rendered"}
            /\ gpc' = "uploadBucket"
            /\ UNCHANGED <<gopts, gtemplate, ghtml, gqueue, gresult>>
    /\ UNCHANGED <<gcalls, fetchLog, bucketExists, bucket, uploadLog>>
    /\ UNCHANGED <<storeVars, faults, handlerVars, resolverVars, readerVars, clientVars>>

\* an upload that keeps the object already at the path next to the new one
StorageUploadKeepsOld(objects, path, body, options) ==
    [ error |-> FALSE,
      objects |-> objects \cup {[path |-> path, body |-> body,
                                 cacheControl |-> options.cacheControl]} ]

\* storage.from(bucket).upload(path, body, options): without upsert an
\* object already at the path is an error; with upsert it is replaced
StorageUpload(objects, path, body, options) ==
    LET there == {o \in objects : o.path = path}
        object == [path |-> path, body |-> body, cacheControl |-> options.cacheControl]
    IN  IF there # {} /\ ~options.upsert
        THEN [error |-> TRUE, objects |-> objects]
        ELSE [error |-> FALSE, objects |-> (objects \ there) \cup {object}]

\* storage.from(bucket).getPublicUrl(path)
PublicUrl(path) == <<"/storage/v1/object/public/certificates/">> \o path

\* the upload of the PDF and the return of generateCertificateAndUpload
UploadCertificate(uploadFails) ==
    /\ gpc = "upload"
    /\ LET path == StoragePath(gopts.verificationCode)
           up == StorageUpload(bucket, path, [pdf |-> ghtml],
                               [cacheControl |-> "0", upsert |-> TRUE])
       IN  IF uploadFails \/ up.error
           THEN /\ GenerateThrows("Failed to upload certificate")
                /\ UNCHANGED <<bucket, uploadLog, gsteps>>
           ELSE /\ bucket' = up.objects
                /\ uploadLog' = Append(uploadLog, [path |-> path, body |-> [pdf |-> ghtml]])
                /\ gsteps' = gsteps \cup {"uploaded"}
                /\ gresult' = [ok |-> TRUE, error |-> "none",
                               publicUrl |-> Some(PublicUrl(path))]
                /\ gpc' = "idle"
                /\ gopts' = NoGenerateOptions
                /\ gtemplate' = <<>>
                /\ ghtml' = <<>>
                /\ gqueue' = <<>>
    /\ UNCHANGED <<gcalls, gio, fetchLog, bucketExists>>
    /\ UNCHANGED <<storeVars, faults, handlerVars, resolverVars, readerVars, clientVars>>

GeneratorNext ==
    \/ \E options \in GenerateOptions : GenerateCall(options)
    \/ \E lookup \in {"data", "notFound", "nothing", "error"}, createFails \in BOOLEAN :
          EnsureBucket(lookup, createFails)
    \/ \E outcome \in {[kind |-> "ok", template |-> t] : t \in Templates}
                        \cup {[kind |-> k, template |-> <<>>] :
                                 k \in {"notFound", "error", "empty"}} :
          DownloadTemplate(outcome)
    \/ \E localKind \in {"file", "ENOENT", "EACCES"}, remoteKind \in {"ok", "notOk", "threw"} :
          InlineAsset(localKind, remoteKind)
    \/ \E launched \in BOOLEAN : LaunchBrowser(launched)
    \/ \E failure \in {"none", "newPage", "setContent", "pdf"}, closeFails \in BOOLEAN :
          RenderPdf(failure, closeFails)
    \/ \E uploadFails \in BOOLEAN : UploadCertificate(uploadFails)

GeneratorInit ==
    /\ badges = {BADGE_GSP, BADGE_SCS}
    /\ people = <<>>
    /\ awards = <<>>
    /\ awardsUnique = FALSE
    /\ resendConfigured = FALSE
    /\ certificates = <<>>
    /\ outbox = {}
    /\ faults = 0
    /\ HandlerInit
    /\ ResolverIdle
    /\ GeneratorIdle
    /\ ReaderIdle
    /\ env = [serviceRoleKey |-> TRUE, resendApiKey |-> FALSE]
    /\ ClientsIdle

GeneratorSpec == GeneratorInit /\ [][GeneratorNext]_vars

(***************************************************************************)
(* The read interfaces of data/awards, each called on its own.             *)
(***************************************************************************)
\* PostgREST .single(): the one matching row, or an error: PGRST116 when the
\* rows are none or several, another code when the query itself fails
Single(rows, queryFails) ==
    IF queryFails THEN [data |-> None, error |-> "OTHER"]
    ELSE IF Cardinality(rows) = 1
    THEN [data |-> Some(CHOOSE r \in rows : TRUE), error |-> "none"]
    ELSE [data |-> None, error |-> "PGRST116"]


\* the Award built from a row and its embedded people (name) and badges
\* (slug)  (lines 90-102 of data/awards)
AwardOf(row) ==
    LET persons == {i \in 1..Len(people) : people[i].id = row.person_id}
        bs == {b \in badges : b.id = row.badge_id}
    IN  [ id |-> row.id,
          recipientName |->
              IF persons = {} THEN None ELSE Some(people[CHOOSE i \in persons : TRUE].name),
          credentialSlug |->
              IF bs = {} THEN None ELSE Some((CHOOSE b \in bs : TRUE).slug),
          issuedAt |-> row.issued_at,
          personalizedDescription |-> row.personalized_description,
          certificateUrl |-> Some(PublicUrl(StoragePath(row.id))) ]

\* a getAwardById that answers undefined on every error
getAwardByIdSwallowsErrors(id, queryFails) ==
    LET r == Single({awards[i] : i \in {j \in 1..Len(awards) : awards[j].id = id}},
                    queryFails)
    IN  IF r.error # "none" THEN [kind |-> "undefined"]
        ELSE [kind |-> "award", value |-> AwardOf(r.data[1])]

\* getAwardById(id)
getAwardById(id, queryFails) ==
    LET r == Single({awards[i] : i \in {j \in 1..Len(awards) : awards[j].id = id}},
                    queryFails)
    IN  IF r.error = "PGRST116" THEN [kind |-> "undefined"]
        ELSE IF r.error # "none" THEN [kind |-> "raised"]
        ELSE [kind |-> "award", value |-> AwardOf(r.data[1])]

\* getAwards(): every row, latest issuance first, each with the public URL of
\* awards/{id}.pdf; raises when the query fails  (lines 35-66 of data/awards)
getAwards(queryFails) ==
    LET rows == {awards[i] : i \in 1..Len(awards)}
    IN  IF queryFails THEN [kind |-> "raised"]
        ELSE [kind |-> "awards",
              value |-> [k \in 1..Cardinality(rows) |->
                            AwardOf(CHOOSE r \in rows :
                                Cardinality({q \in rows : q.issued_at > r.issued_at}) = k - 1)]]

\* getCredentialBySlug(slug)
getCredentialBySlug(slug, queryFails) ==
    LET r == Single({b \in badges : b.slug = slug}, queryFails)
    IN  IF r.error = "PGRST116" THEN [kind |-> "undefined"]
        ELSE IF r.error # "none" THEN [kind |-> "raised"]
        ELSE [kind |-> "credential", value |-> [slug |-> r.data[1].slug]]

MaxAwardRows == 3

ReadAwardById(id, queryFails) ==
    /\ qpc = "call"
    /\ qcall' = [fn |-> "getAwardById", arg |-> id, queryFails |-> queryFails]
    /\ qresult' = getAwardById(id, queryFails)
    /\ qpc' = "returned"
    /\ UNCHANGED <<storeVars, faults, handlerVars, resolverVars, generatorVars, clientVars>>

ReadCredentialBySlug(slug, queryFails) ==
    /\ qpc = "call"
    /\ qcall' = [fn |-> "getCredentialBySlug", arg |-> slug, queryFails |-> queryFails]
    /\ qresult' = getCredentialBySlug(slug, queryFails)
    /\ qpc' = "returned"
    /\ UNCHANGED <<storeVars, faults, handlerVars, resolverVars, generatorVars, clientVars>>

ReadAwards(queryFails) ==
    /\ qpc = "call"
    /\ qcall' = [fn |-> "getAwards", arg |-> 0, queryFails |-> queryFails]
    /\ qresult' = getAwards(queryFails)
    /\ qpc' = "returned"
    /\ UNCHANGED <<storeVars, faults, handlerVars, resolverVars, generatorVars, clientVars>>

ReaderNext ==
    \/ \E queryFails \in BOOLEAN : ReadAwards(queryFails)
    \/ \E id \in 1..(MaxAwardRows + 1), queryFails \in BOOLEAN : ReadAwardById(id, queryFails)
    \/ \E slug \in {SLUG_GSP, SLUG_SCS, IN_UNKNOWN, IN_SCS}, queryFails \in BOOLEAN :
          ReadCredentialBySlug(slug, queryFails)

ReaderInit ==
    /\ badges \in {{BADGE_GSP, BADGE_SCS}, {BADGE_GSP}}
    /\ people = << [id |-> 1, name |-> NAME_JANE, email |-> EMAIL_LOWER],
                   [id |-> 2, name |-> NAME_JAY, email |-> EMAIL_OTHER] >>
    /\ LET \* the rows the reader finds in the awards table
           AwardRow(id, personId, badgeId) ==
               [ id |-> id, person_id |-> personId, badge_id |-> badgeId, issued_at |-> id,
                 personalized_description |-> DescriptionOf(None, None) ]
           AwardTables ==
               {SubSeq(<<AwardRow(1, 1, 1), AwardRow(2, 2, 2),
                         AwardRow(3, 1, 2), AwardRow(4, 2, 1)>>, 1, n) : n \in 0..MaxAwardRows}
       IN  awards \in {t \in AwardTables :
                          \A i \in 1..Len(t) : \E b \in badges : b.id = t[i].badge_id}
    /\ awardsUnique = FALSE
    /\ resendConfigured = FALSE
    /\ certificates \in {c \in {<<>>, (1 :> NAME_JANE)} :
                            \A id \in DOMAIN c : \E i \in 1..Len(awards) : awards[i].id = id}
    /\ outbox = {}
    /\ faults = 0
    /\ HandlerInit
    /\ ResolverIdle
    /\ GeneratorIdle
    /\ qpc = "call"
    /\ qcall = [fn |-> "none", arg |-> 0, queryFails |-> FALSE]
    /\ qresult = [kind |-> "none"]
    /\ env = [serviceRoleKey |-> TRUE, resendApiKey |-> FALSE]
    /\ ClientsIdle

ReaderSpec == ReaderInit /\ [][ReaderNext]_vars

(***************************************************************************)
(* The two client getters of lib/supabaseAdmin, called on their own.       *)
(***************************************************************************)
MaxClientCalls == 4

\* getResendClient: undefined while the API key is missing
getResendClient(cached, apiKey, fresh) ==
    IF cached # 0
    THEN [kind |-> "client", handle |-> cached, cache |-> cached, constructed |-> FALSE]
    ELSE IF ~apiKey
    THEN [kind |-> "undefined", handle |-> 0, cache |-> cached, constructed |-> FALSE]
    ELSE [kind |-> "client", handle |-> fresh, cache |-> fresh, constructed |-> TRUE]

\* one call of getSupabaseAdminClient (fn = "admin") or getResendClient
\* (fn = "resend")
GetClientCall(fn) ==
    /\ ccalls < MaxClientCalls
    /\ ccalls' = ccalls + 1
    /\ LET r == IF fn = "admin"
                THEN getSupabaseAdminClient(clients.admin, env.serviceRoleKey,
                                            created.admin + 1)
                ELSE getResendClient(clients.resend, env.resendApiKey,
                                     created.resend + 1)
       IN  /\ clients' = [clients EXCEPT ![fn] = r.cache]
           /\ created' = [created EXCEPT ![fn] = @ + (IF r.constructed THEN 1 ELSE 0)]
           /\ cresult' = [fn |-> fn, kind |-> r.kind, handle |-> r.handle,
                          constructed |-> r.constructed]
    /\ UNCHANGED <<storeVars, faults, handlerVars, libraryVars, env>>

\* the deployment sets or unsets a key between two calls
SetEnvironment(key, value) ==
    /\ env[key] # value
    /\ env' = [env EXCEPT ![key] = value]
    /\ UNCHANGED <<storeVars, faults, handlerVars, libraryVars,
                   clients, created, ccalls, cresult>>

ClientNext ==
    \/ \E fn \in {"admin", "resend"} : GetClientCall(fn)
    \/ \E key \in {"serviceRoleKey", "resendApiKey"}, value \in BOOLEAN :
          SetEnvironment(key, value)

ClientInit ==
    /\ badges = {BADGE_GSP, BADGE_SCS}
    /\ people = <<>>
    /\ awards = <<>>
    /\ awardsUnique = FALSE
    /\ resendConfigured = FALSE
    /\ certificates = <<>>
    /\ outbox = {}
    /\ faults = 0
    /\ HandlerInit
    /\ ResolverIdle
    /\ GeneratorIdle
    /\ ReaderIdle
    /\ env \in [serviceRoleKey : BOOLEAN, resendApiKey : BOOLEAN]
    /\ ClientsIdle

ClientSpec == ClientInit /\ [][ClientNext]_vars

(***************************************************************************)
(* Properties.                                                             *)
(***************************************************************************)
Done(h) == pc[h] = "done"
Ok(h) == Done(h) /\ resp[h].status = 200
Body(h) == Bodies[req[h]]

\* the e-mail of a request, trimmed and lower-cased: that of the record for a
\* database webhook, that of the body otherwise
RequestEmail(h) ==
    LET body == Body(h)
    IN  IF supabaseWebhookSchema(body)
        THEN ToLowerCase(Trim(body.record[1].user_email[1]))
        ELSE IF body.email # None THEN ToLowerCase(Trim(body.email[1])) ELSE <<>>

\* the award rows of the person with this e-mail for the badge with this slug
AwardRowsFor(email, slug) ==
    {i \in 1..Len(awards) : /\ people[awards[i].person_id].email = email
                            /\ \E b \in badges : /\ b.id = awards[i].badge_id
                                                  /\ Some(b.slug) = slug}

\* the award rows inserted by request h (issued_at is the time h read)
AwardRowsCreatedBy(h) == {i \in 1..Len(awards) : awards[i].issued_at = Now(h)}

\* no request but h has arrived
OnlyRequest(h) == \A g \in Handlers \ {h} : pc[g] = "idle"

\* request g was answered 200 before request h, for the same e-mail and badge
Replays(g, h) ==
    /\ g < h /\ Ok(g) /\ Ok(h)
    /\ RequestEmail(g) = RequestEmail(h)
    /\ resp[g].badgeSlug = resp[h].badgeSlug

\* C1: after two successful POSTs sent one after the other with the same
\* normalized e-mail and resolving to the same badge, exactly one award row
\* exists for that person and badge, and the second response carries the
\* award id of the first.
C1_ReplayReturnsSameAward ==
    \A g, h \in Handlers :
        Replays(g, h) =>
            /\ resp[h].awardId = resp[g].awardId
            /\ Cardinality(AwardRowsFor(RequestEmail(h), resp[h].badgeSlug)) = 1

C1_Witness ==
    \E g, h \in Handlers : Replays(g, h) /\ Body(g).email # Body(h).email

\* C2: when the award already existed before the POST, the response has
\* email.status "skipped" with reason "existing award reused" and no delivery
\* is attempted for that request.
C2_ReplaySendsNoEmail ==
    \A h \in Handlers :
        (Ok(h) /\ resp[h].awardId \notin {awards[i].id : i \in AwardRowsCreatedBy(h)}) =>
            /\ resp[h].email = SKIPPED_REUSED
            /\ \A m \in outbox : m.request # h

\* C3: in every state, under every interleaving of concurrent handlers, the
\* awards table holds at most one row per (person_id, badge_id).
C3_AtMostOneAwardPerPair ==
    \A i, j \in 1..Len(awards) :
        (awards[i].person_id = awards[j].person_id
            /\ awards[i].badge_id = awards[j].badge_id) => i = j

\* the step of h is the handler's own reaction, not an injected failure
OwnStep(h) == pc'[h] # pc[h] /\ faults' = faults

\* C4: a handler whose award insert conflicts with the row another handler
\* has just created re-reads that row and goes on to a 200 response with its
\* id; it does not answer with an error status.
C4_ConflictingAwardInsertRereads ==
    [][\A h \in Handlers :
          (/\ pc[h] = "awardInsert"
           /\ awardsUnique
           /\ AwardsOf(loc[h].personId, loc[h].badge) # {}
           /\ OwnStep(h))
          => (/\ pc'[h] # "done"
              /\ loc'[h].awardId \in
                    {awards[i].id : i \in AwardsOf(loc[h].personId, loc[h].badge)})]_vars

OnePersonPerEmail ==
    \A i, j \in 1..Len(people) : people[i].email = people[j].email => i = j

\* C5: under every interleaving of concurrent handlers for the same unseen
\* e-mail exactly one person row is created for it, and a handler that loses
\* the insert race looks the person up again and goes on to the award step
\* instead of answering 500.
C5_LostPersonRaceRecovers ==
    /\ []OnePersonPerEmail
    /\ [][\A h \in Handlers :
             (/\ pc[h] = "personInsert"
              /\ PeopleWithEmail(loc[h].email) # {}
              /\ OwnStep(h))
             => (/\ pc'[h] = "awardLookup"
                 /\ loc'[h].personId \in
                       {people[i].id : i \in PeopleWithEmail(loc[h].email)})]_vars

\* a body of the direct shape that is valid once its e-mail is trimmed
ValidUpToPadding(body) ==
    /\ body.json
    /\ IsString(body.name) /\ Len(body.name[1]) >= 1
    /\ IsString(body.email) /\ IsEmail(Trim(body.email[1]))

\* the person a 200 response stands for
PersonOf(h) == awards[resp[h].awardId].person_id

\* C6: two requests whose e-mails are equal after trim and lower case are
\* both accepted and resolve to the same person row, and every stored e-mail
\* is in trimmed, lower-case form.
C6_EmailIdentityIgnoresCaseAndPadding ==
    /\ \A h \in Handlers :
          (Done(h) /\ ValidUpToPadding(Body(h))) => resp[h].status # 400
    /\ \A g, h \in Handlers :
          (Ok(g) /\ Ok(h) /\ RequestEmail(g) = RequestEmail(h))
              => PersonOf(g) = PersonOf(h)
    /\ \A i \in 1..Len(people) : people[i].email = ToLowerCase(Trim(people[i].email))

\* the badge a candidate points to through the alias table, None if it points
\* to none
PointsTo(opt) ==
    IF opt = None THEN None
    ELSE LET hits == {e \in COURSE_TO_BADGE_SLUG : e[1] = ToLowerCase(Trim(opt[1]))}
         IN  IF hits = {} THEN None ELSE Some((CHOOSE e \in hits : TRUE)[2])

\* badgeSlug and at least one of courseId, courseName point to different badges
Conflicting(params) ==
    /\ PointsTo(params.badgeSlug) # None
    /\ \/ PointsTo(params.courseId) \notin {None, PointsTo(params.badgeSlug)}
       \/ PointsTo(params.courseName) \notin {None, PointsTo(params.badgeSlug)}

\* C7: when badgeSlug and courseId and/or courseName are present and point to
\* different badges, the resolved slug is the one badgeSlug points to, never
\* the one derived from courseId or courseName.
C7_ExplicitSlugWins ==
    (rpc = "returned" /\ Conflicting(rparams)) => rresult = PointsTo(rparams.badgeSlug)

C7_Witness ==
    /\ rpc = "returned"
    /\ Conflicting(rparams)
    /\ rparams.badgeSlug = Some(IN_SCS)
    /\ rparams.courseId = Some(IN_GSP_PADDED)
    /\ rresult = Some(SLUG_SCS)

\* the candidates a payload supplies: the non-blank ones, trimmed and lower-cased
Supplied(params) ==
    {ToLowerCase(Trim(c[1])) : c \in {params.badgeSlug, params.courseId,
                                       params.courseName} \ {None}} \ {<<>>}

\* C8: a payload that supplies at least one candidate, none of which is an
\* entry of the alias table, resolves to the default slug
\* "green-software-practitioner", whatever the candidate strings are.
C8_UnrecognizedResolvesToDefault ==
    (rpc = "returned" /\ Supplied(rparams) # {} /\ Supplied(rparams) \cap AliasKeys = {})
        => rresult = Some(DEFAULT_BADGE_SLUG)

\* C9: a valid payload that supplies no candidate at all is rejected as
\* unresolvable; no award is issued for any badge.
C9_NoCandidateIsRejected ==
    \A h \in Handlers :
        (Done(h) /\ directPayloadSchema(Body(h)) /\ Supplied(Body(h)) = {}) =>
            /\ resp[h].status # 200
            /\ AwardRowsCreatedBy(h) = {}
            /\ OnlyRequest(h) => (people = <<>> /\ awards = <<>>)

\* the explicit badgeSlug of the request names no row of badges
NamesNoBadge(body) ==
    /\ body.badgeSlug # None
    /\ \A b \in badges : b.slug # ToLowerCase(Trim(body.badgeSlug[1]))

\* C10: a direct-shape POST whose explicit badgeSlug names no existing badge
\* is answered 404 and creates no person and no award, whatever other badges
\* exist.
C10_UnknownSlugIs404 ==
    \A h \in Handlers :
        (Done(h) /\ directPayloadSchema(Body(h)) /\ NamesNoBadge(Body(h)) /\ faults = 0) =>
            /\ resp[h].status = 404
            /\ AwardRowsCreatedBy(h) = {}
            /\ OnlyRequest(h) => (people = <<>> /\ awards = <<>>)

\* the step of h was taken while an injected failure struck
FailedStep(h) == pc'[h] # pc[h] /\ faults' # faults

\* C11: once the award step has succeeded the response status is 200 on
\* every continuation; a failure of the certificate or of the delivery shows
\* only as an absent certificateUrl or as email.status "failed".
C11_NoFailureAfterAward ==
    [][\A h \in Handlers :
          (pc[h] \in {"certificate", "notify"} /\ pc'[h] # pc[h]) =>
              /\ pc[h] = "certificate" =>
                    /\ pc'[h] = "notify"
                    /\ FailedStep(h) => loc'[h].certificateUrl = None
              /\ pc[h] = "notify" =>
                    /\ pc'[h] = "done"
                    /\ resp'[h].status = 200
                    /\ resp'[h].awardId = loc[h].awardId
                    /\ FailedStep(h) => resp'[h].email.status = "failed"]_vars

C11_Witness ==
    \E h \in Handlers : Ok(h) /\ faults > 0 /\ resp[h].certificateUrl = None

\* C12: when certificate generation fails the award row of the request stays
\* in the store, the response is 200 and carries no certificateUrl; a
\* certificateUrl is in the response only when the certificate was generated
\* and uploaded by that same request.
C12_CertificateFailureKeepsAward ==
    /\ [](\A h \in Handlers :
             /\ Ok(h) => \E i \in 1..Len(awards) : awards[i].id = resp[h].awardId
             /\ loc[h].certificateUrl # None => pc[h] = "notify")
    /\ [][\A h \in Handlers :
             /\ (pc[h] = "certificate" /\ pc'[h] # pc[h]) =>
                   /\ awards' = awards
                   /\ IF FailedStep(h)
                      THEN loc'[h].certificateUrl = None /\ certificates' = certificates
                      ELSE /\ loc'[h].certificateUrl # None
                           /\ loc[h].awardId \in DOMAIN certificates'
                           /\ certificates'[loc[h].awardId] = loc[h].name
             /\ (pc[h] = "notify" /\ pc'[h] # pc[h]) =>
                   /\ resp'[h].status = 200
                   /\ resp'[h].certificateUrl = loc[h].certificateUrl]_vars

C12_Witness ==
    \E h \in Handlers :
        /\ Ok(h) /\ resp[h].certificateUrl = None
        /\ \E i \in AwardRowsCreatedBy(h) : awards[i].id = resp[h].awardId
        /\ resp[h].awardId \notin DOMAIN certificates

\* how far the handler has come
PcRank(p) ==
    CASE p = "idle" -> 0
      [] p = "badgeLookup" -> 1
      [] p = "personLookup" -> 2
      [] p = "personInsert" -> 3
      [] p = "awardLookup" -> 4
      [] p = "awardInsert" -> 5
      [] p = "certificate" -> 6
      [] p = "notify" -> 7
      [] p = "done" -> 8
      [] p = "threw" -> 8

\* what a request can write: the two tables, the bucket, the provider
Written == <<people, awards, certificates, outbox>>

\* C13: a request that ends in 400, 404 or 500 writes nothing, uploads
\* nothing and sends nothing from the failing step on (the failing step
\* itself writes nothing and no step follows it); a 400 or a 404 comes before
\* the first write of the request, so the request leaves people and awards
\* as they were.
C13_FailedRequestWritesNothingMore ==
    /\ [][/\ Written' # Written => \E h \in Handlers : pc'[h] # pc[h]
          /\ \A h \in Handlers :
               pc'[h] # pc[h] =>
                  /\ PcRank(pc'[h]) > PcRank(pc[h])
                  /\ (pc'[h] = "done" /\ resp'[h].status \in {400, 404, 500})
                        => Written' = Written
                  /\ (pc'[h] = "done" /\ resp'[h].status \in {400, 404})
                        => PcRank(pc[h]) <= 1
                  /\ PcRank(pc[h]) <= 2 => Written' = Written]_vars
    /\ [](\A h \in Handlers :
             (Done(h) /\ resp[h].status \in {400, 404}) =>
                 /\ AwardRowsCreatedBy(h) = {}
                 /\ OnlyRequest(h) => (people = <<>> /\ awards = <<>>))

C13_Witness ==
    \E h \in Handlers :
        /\ Done(h) /\ resp[h].status = 500 /\ resp[h].error = "Failed to create award"
        /\ OnlyRequest(h)
        /\ Len(people) = 1 /\ awards = <<>> /\ outbox = {} /\ certificates = <<>>

\* C14: the webhook shape is tried first and the direct shape second; a body
\* is answered 400 exactly when it is not JSON or has neither shape; a body of
\* the webhook shape is handled from its record (name, e-mail, course, no
\* explicit badgeSlug) even when it has the direct shape too.
C14_DispatchIsStructuralAndOrdered ==
    \A h \in Handlers :
        Done(h) =>
            /\ resp[h].status = 400
                  <=> \/ ~Body(h).json
                      \/ ~supabaseWebhookSchema(Body(h)) /\ ~directPayloadSchema(Body(h))
            /\ (Ok(h) /\ supabaseWebhookSchema(Body(h))) =>
                  LET r == Body(h).record[1]
                  IN  /\ resp[h].recipientName = r.user_name[1]
                      /\ resp[h].recipientEmail = ToLowerCase(Trim(r.user_email[1]))
                      /\ PointsTo(r.course_id) # None
                            => resp[h].badgeSlug = PointsTo(r.course_id)

C14_Witness ==
    \E h \in Handlers :
        /\ Ok(h) /\ Body(h) = BODY_BOTH_SHAPES
        /\ directPayloadSchema(Body(h)) /\ supabaseWebhookSchema(Body(h))
        /\ resp[h].recipientName = NAME_JAY /\ resp[h].badgeSlug = Some(SLUG_GSP)

\* no earlier request carried the e-mail of request h
FirstSighting(h) == \A g \in Handlers : g < h => RequestEmail(g) # RequestEmail(h)

\* a valid direct payload, an e-mail not seen before, a course identifier
\* that resolves to a stored badge, and nothing failing
HappyPath(h) ==
    /\ Done(h) /\ faults = 0
    /\ directPayloadSchema(Body(h)) /\ ~supabaseWebhookSchema(Body(h))
    /\ FirstSighting(h)
    /\ PointsTo(Body(h).courseId) # None
    /\ PointsTo(Body(h).badgeSlug) \in {None, PointsTo(Body(h).courseId)}
    /\ \E b \in badges : Some(b.slug) = PointsTo(Body(h).courseId)

\* C15: for a valid direct payload with an e-mail not seen before whose
\* course identifier resolves to a stored badge, nothing failing, the
\* response is 200, one person row and one award row are added,
\* certificateUrl is present and email.status is "sent" with a configured
\* provider and "skipped" without.
C15_FirstIssuance ==
    \A h \in Handlers :
        HappyPath(h) =>
            /\ resp[h].status = 200
            /\ resp[h].badgeSlug = PointsTo(Body(h).courseId)
            /\ Cardinality(PeopleWithEmail(RequestEmail(h))) = 1
            /\ Cardinality(AwardRowsCreatedBy(h)) = 1
            /\ \A i \in AwardRowsCreatedBy(h) :
                  /\ awards[i].id = resp[h].awardId
                  /\ people[awards[i].person_id].email = RequestEmail(h)
                  /\ people[awards[i].person_id].name = Body(h).name[1]
            /\ OnlyRequest(h) => (Len(people) = 1 /\ Len(awards) = 1)
            /\ resp[h].certificateUrl # None
            /\ resp[h].email.status = IF resendConfigured THEN "sent" ELSE "skipped"

C15_Witness ==
    \E h \in Handlers :
        /\ HappyPath(h) /\ ~OnlyRequest(h) /\ Len(people) = 2
        /\ resendConfigured /\ resp[h].email.status = "sent"

\* C16: a repeat signal for an existing (person, badge) leaves the stored
\* award row as it was (id, issued_at, personalized_description), and the
\* issuedAt of the replay response is the original issuance time.
C16_ReplayKeepsOriginalIssuance ==
    /\ [](\A g, h \in Handlers :
             Replays(g, h) =>
                 /\ resp[h].issuedAt = resp[g].issuedAt
                 /\ awards[resp[h].awardId].issued_at = resp[g].issuedAt)
    /\ [][\A h \in Handlers :
             (/\ pc[h] \in {"awardLookup", "certificate", "notify"}
              /\ Cardinality(AwardsOf(loc[h].personId, loc[h].badge)) = 1
              /\ OwnStep(h))
             => /\ awards' = awards
                /\ pc[h] = "awardLookup" =>
                      \E i \in AwardsOf(loc[h].personId, loc[h].badge) :
                          /\ loc'[h].awardId = awards[i].id
                          /\ loc'[h].issuedAt = awards[i].issued_at]_vars

C16_Witness ==
    \E g, h \in Handlers :
        /\ Replays(g, h)
        /\ Body(g) = BODY_GSP /\ Body(h) = BODY_BOTH_SHAPES
        /\ resp[h].issuedAt = Now(g) /\ Now(g) # Now(h)
        /\ awards[resp[h].awardId].personalized_description = resp[g].personalizedDescription
        /\ resp[h].personalizedDescription # resp[g].personalizedDescription

\* C17: a POST with the e-mail of a stored person and a different name leaves
\* the person row (id, name, email) as it was; no row of people ever changes
\* once inserted.
C17_ResightingKeepsName ==
    [][/\ \A i \in 1..Len(people) : Len(people') >= i /\ people'[i] = people[i]
       /\ \A h \in Handlers :
            (/\ pc[h] = "personLookup"
             /\ OwnStep(h)
             /\ \E i \in PeopleWithEmail(ToLowerCase(Trim(loc[h].email))) :
                    people[i].name # loc[h].name)
            => (people' = people /\ pc'[h] = "awardLookup")]_vars

C17_Witness ==
    \E h \in Handlers :
        /\ Ok(h)
        /\ people[PersonOf(h)].email = resp[h].recipientEmail
        /\ people[PersonOf(h)].name # resp[h].recipientName

PersonIds == {people[i].id : i \in 1..Len(people)}
AwardIds == {awards[i].id : i \in 1..Len(awards)}

\* C18: no row of people or awards is deleted or updated and badges is never
\* written: the person ids and the award ids only grow, and an award id once
\* returned keeps denoting the same (person, badge) pair.
C18_RowsOnlyGrow ==
    /\ [][/\ badges' = badges
          /\ PersonIds \subseteq PersonIds'
          /\ AwardIds \subseteq AwardIds'
          /\ \A i \in 1..Len(awards) :
                \E j \in 1..Len(awards') :
                    /\ awards'[j].id = awards[i].id
                    /\ awards'[j].person_id = awards[i].person_id
                    /\ awards'[j].badge_id = awards[i].badge_id]_vars
    /\ [](\A h \in Handlers :
             Ok(h) =>
                \A i \in 1..Len(awards) :
                    awards[i].id = resp[h].awardId =>
                        /\ people[awards[i].person_id].email = resp[h].recipientEmail
                        /\ \E b \in badges : /\ b.id = awards[i].badge_id
                                              /\ Some(b.slug) = resp[h].badgeSlug)

C18_Witness ==
    \E g, h \in Handlers :
        /\ g < h /\ Ok(g) /\ Ok(h)
        /\ resp[g].awardId # resp[h].awardId
        /\ resp[g].badgeSlug # resp[h].badgeSlug
        /\ Cardinality(AwardIds) = 2

\* the datastore calls of the handler
DatastoreSteps ==
    {"badgeLookup", "personLookup", "personInsert", "awardLookup", "awardInsert"}

\* C19: 404 is answered only when badges has no row for the resolved slug; a
\* failure of a datastore call at any step (badge lookup, person lookup or
\* insert, award lookup or insert) is answered 500.
C19_NotFoundOnlyWhenBadgeMissing ==
    [][\A h \in Handlers :
          (pc[h] # "done" /\ pc'[h] = "done") =>
              /\ resp'[h].status = 404 =>
                    (pc[h] = "badgeLookup" /\ BadgesWithSlug(loc[h].slug[1]) = {})
              /\ (FailedStep(h) /\ pc[h] \in DatastoreSteps) => resp'[h].status = 500]_vars

\* C20: with the provider unconfigured the sender answers "skipped" without
\* calling the provider, and the request completes with 200.
C20_UnconfiguredProviderIsSkipped ==
    [][\A h \in Handlers :
          (pc[h] = "notify" /\ ~resendConfigured /\ pc'[h] # pc[h]) =>
              /\ pc'[h] = "done"
              /\ resp'[h].status = 200
              /\ resp'[h].email.status = "skipped"
              /\ outbox' = outbox]_vars

C20_Witness ==
    \E h \in Handlers :
        /\ Ok(h) /\ ~resendConfigured
        /\ resp[h].email = SKIPPED_UNCONFIGURED
        /\ outbox = {}

\* C21: sendAwardNotification always returns one of sent, skipped, failed and
\* never raises: the handler goes on to its 200 response.  An error returned
\* by the provider and an exception thrown by it both give "failed"; "sent"
\* is returned only when the delivery call came back without error.
C21_SenderAlwaysReturnsAStatus ==
    [][\A h \in Handlers :
          (pc[h] = "notify" /\ pc'[h] # pc[h]) =>
              /\ pc'[h] = "done"
              /\ resp'[h].status = 200
              /\ resp'[h].email \in {SENT, SKIPPED_UNCONFIGURED, FAILED_PROVIDER, FAILED_THROWN}
              /\ resp'[h].email.status \in {"sent", "skipped", "failed"}
              /\ FailedStep(h) => resp'[h].email.status = "failed"
              /\ resp'[h].email.status = "sent" =>
                    /\ resendConfigured
                    /\ faults' = faults
                    /\ \E m \in outbox' : m.request = h /\ m.to = loc[h].email]_vars

C21_Witness ==
    /\ \E h \in Handlers : Ok(h) /\ resp[h].email = FAILED_THROWN
    /\ \E h \in Handlers : Ok(h) /\ resp[h].email = SENT

\* the path of the certificate of verification code c
CertificatePath(c) == <<"awards/", c, ".pdf">>
StoredAt(path) == {o \in bucket : o.path = path}
UploadsTo(path) == {k \in 1..Len(uploadLog) : uploadLog[k].path = path}
Last(positions) == CHOOSE i \in positions : \A j \in positions : j <= i

\* C22: every successful generateCertificateAndUpload for verification code c
\* writes the one object awards/c.pdf, overwriting, with cache control 0: at
\* most one object is stored for c, it holds the output of the latest
\* successful generation for c, and the public URL returned is the same each
\* time.
C22_GenerationIsIdempotentPerCode ==
    /\ [](\A o \in bucket : \E c \in 1..MaxCodes : o.path = CertificatePath(c))
    /\ [](\A c \in 1..MaxCodes :
             /\ Cardinality(StoredAt(CertificatePath(c))) <= 1
             /\ (StoredAt(CertificatePath(c)) = {}) <=> (UploadsTo(CertificatePath(c)) = {})
             /\ \A o \in StoredAt(CertificatePath(c)) :
                   /\ o.cacheControl = "0"
                   /\ o.body = uploadLog[Last(UploadsTo(CertificatePath(c)))].body)
    /\ [][(gpc = "upload" /\ gresult'.ok) =>
             /\ gresult'.publicUrl =
                   Some(PublicUrl(CertificatePath(gopts.verificationCode)))
             /\ bucket' = {o \in bucket : o.path # CertificatePath(gopts.verificationCode)}
                             \cup {[path |-> CertificatePath(gopts.verificationCode),
                                    body |-> [pdf |-> ghtml], cacheControl |-> "0"]}]_vars

C22_Witness ==
    /\ Len(uploadLog) = 2
    /\ uploadLog[1].path = uploadLog[2].path
    /\ uploadLog[1].body # uploadLog[2].body
    /\ bucket = {[path |-> uploadLog[2].path, body |-> uploadLog[2].body,
                  cacheControl |-> "0"]}
    /\ gresult.ok

TemplateFetchFailures == {"notFound", "error", "empty"}

\* C23: when the template cannot be fetched (not found, download error, empty
\* response) generation raises before anything is substituted, rendered or
\* uploaded: nothing is written to the bucket and a certificate stored by an
\* earlier generation stays as it was.
C23_TemplateFailureWritesNothing ==
    /\ [](gresult.error \in TemplateFetchFailures =>
             /\ gpc = "idle"
             /\ ~gresult.ok
             /\ gsteps = {})
    /\ [][(gpc \in {"idle", "templateBucket", "download"}) =>
             /\ bucket' = bucket
             /\ uploadLog' = uploadLog]_vars

C23_Witness ==
    /\ gresult.error = "notFound"
    /\ gcalls = 2
    /\ Len(uploadLog) = 1
    /\ bucket = {[path |-> uploadLog[1].path, body |-> uploadLog[1].body,
                  cacheControl |-> "0"]}

RequiredPlaceholders == {NAME_PLACEHOLDER, DATE_PLACEHOLDER, COURSE_PLACEHOLDER}

\* C24: when the template lacks one of the required placeholders the
\* substitution fails and nothing is rendered or uploaded; text brought in by
\* substituting an earlier value does not satisfy the check.  So whenever the
\* substitution has succeeded the downloaded template holds every placeholder.
C24_MissingPlaceholderFails ==
    ("substituted" \in gsteps /\ gpc # "idle") =>
        \A placeholder \in RequiredPlaceholders : Includes(gtemplate, placeholder)

\* the text with every placeholder occurrence of it, and of nothing else,
\* replaced by its value, from position i on
RECURSIVE SubstituteOnceFrom(_, _, _)
SubstituteOnceFrom(s, pairs, i) ==
    LET hits == {j \in i..Len(s) : \E k \in 1..Len(pairs) : IsMatchAt(s, pairs[k][1], j)}
    IN  IF hits = {} THEN SubSeq(s, i, Len(s))
        ELSE LET j == First(hits)
                 k == CHOOSE k \in 1..Len(pairs) : IsMatchAt(s, pairs[k][1], j)
             IN  SubSeq(s, i, j - 1) \o pairs[k][2]
                     \o SubstituteOnceFrom(s, pairs, j + Len(pairs[k][1]))

\* the certificate text the options ask for
ExpectedHtml ==
    SubstituteOnceFrom(injectBaseHref(gtemplate),
                       << <<NAME_PLACEHOLDER, gopts.recipientName>>,
                          <<DATE_PLACEHOLDER, formatIssuedDate(gopts.issuedAt)>>,
                          <<COURSE_PLACEHOLDER, ToUpperCase(gopts.badgeTitle)>> >>,
                       1)

\* C28: when the substitution succeeds, every placeholder position of the
\* template holds its own value and nothing else of the template has changed:
\* a value that was substituted is not rewritten by a later substitution, also
\* when a name or a title contains placeholder text.
C28_SubstitutedValuesAreKept ==
    ("substituted" \in gsteps /\ gpc \in {"inline", "render", "page"} /\ fetchLog = <<>>) =>
        ghtml = ExpectedHtml

\* C29: once inlineAssetSources has returned, no src attribute refers to
\* assets/, with or without a leading slash.
C29_NoAssetReferenceRemains ==
    gpc \in {"render", "page", "uploadBucket", "upload"} =>
        /\ ~Includes(ghtml, SRC_OPEN \o ASSETS_DIR)
        /\ ~Includes(ghtml, SRC_OPEN \o <<"/">> \o ASSETS_DIR)

C25_ReadersFindExactlyTheRow ==
    (qpc = "returned" /\ qcall.fn \in {"getAwardById", "getCredentialBySlug"}) =>
        LET rows == IF qcall.fn = "getAwardById"
                    THEN {awards[i] : i \in {j \in 1..Len(awards) : awards[j].id = qcall.arg}}
                    ELSE {b \in badges : b.slug = qcall.arg}
        IN  /\ qresult.kind = "raised" <=> qcall.queryFails
            /\ ~qcall.queryFails => (qresult.kind = "undefined" <=> rows = {})
            /\ qresult.kind = "award" =>
                  /\ qcall.fn = "getAwardById"
                  /\ qresult.value.id = qcall.arg
                  /\ \E row \in rows : /\ qresult.value.issuedAt = row.issued_at
                                       /\ qresult.value.recipientName
                                             = Some(people[row.person_id].name)
            /\ qresult.kind = "credential" =>
                  /\ qcall.fn = "getCredentialBySlug"
                  /\ qresult.value.slug = qcall.arg

C25_Witness ==
    /\ qpc = "returned"
    /\ qcall.fn = "getAwardById" /\ ~qcall.queryFails
    /\ qresult.kind = "undefined"
    /\ Len(awards) = MaxAwardRows

\* C26: within a request the side effects come in a fixed order: badge
\* lookup, person lookup or insert, award lookup or insert, certificate,
\* notification, response.  No row is written before the badge lookup has
\* succeeded, and no certificate or e-mail step runs before the award row is
\* in the store.
C26_SideEffectsInOrder ==
    [][\A h \in Handlers :
          pc'[h] # pc[h] =>
              /\ PcRank(pc'[h]) > PcRank(pc[h])
              /\ people' # people =>
                    /\ pc[h] = "personInsert"
                    /\ \E b \in badges : b.id = loc[h].badge
              /\ awards' # awards =>
                    /\ pc[h] = "awardInsert"
                    /\ \E b \in badges : b.id = loc[h].badge
                    /\ \E i \in 1..Len(people) : people[i].id = loc[h].personId
              /\ (certificates' # certificates \/ pc[h] = "certificate") =>
                    /\ pc[h] = "certificate"
                    /\ \E i \in 1..Len(awards) : awards[i].id = loc[h].awardId
              /\ (outbox' # outbox \/ pc[h] = "notify") =>
                    /\ pc[h] = "notify"
                    /\ \E i \in 1..Len(awards) : awards[i].id = loc[h].awardId
              /\ (pc'[h] = "done" /\ resp'[h].status = 200) => pc[h] = "notify"]_vars

C26_Witness ==
    \E h \in Handlers :
        /\ Ok(h) /\ resp[h].certificateUrl # None /\ resp[h].email = SENT
        /\ AwardRowsCreatedBy(h) # {}
        /\ \E m \in outbox : m.request = h

\* C27: a certificate that is missing after a first request is recovered by a
\* replay: a later POST for the same person and badge whose generation
\* succeeds stores the certificate of the existing award id and returns its
\* certificateUrl, and creates neither a person nor an award.
C27_ReplayRecoversCertificate ==
    \A g, h \in Handlers :
        (Replays(g, h) /\ resp[g].certificateUrl = None /\ resp[h].certificateUrl # None) =>
            /\ resp[h].awardId = resp[g].awardId
            /\ resp[h].awardId \in DOMAIN certificates
            /\ resp[h].certificateUrl = Some(resp[g].awardId)
            /\ AwardRowsCreatedBy(h) = {}
            /\ Cardinality(PeopleWithEmail(RequestEmail(h))) = 1
            /\ Cardinality(AwardRowsFor(RequestEmail(h), resp[h].badgeSlug)) = 1

C27_Witness ==
    \E g, h \in Handlers :
        /\ Replays(g, h)
        /\ resp[g].certificateUrl = None
        /\ resp[h].certificateUrl # None
        /\ resp[h].awardId \in DOMAIN certificates

\* C31: the client handles are initialize-once, reuse-forever. Each getter
\* constructs at most one client per process; once a handle is cached every
\* later call returns that handle and constructs nothing; with its key missing
\* and nothing cached, getSupabaseAdminClient raises and getResendClient
\* returns undefined, and neither caches anything.
C31_ClientsInitializeOnce ==
    /\ [](created.admin <= 1 /\ created.resend <= 1)
    /\ [][\A fn \in {"admin", "resend"} :
            (ccalls' # ccalls /\ cresult'.fn = fn) =>
                LET key == IF fn = "admin" THEN env.serviceRoleKey ELSE env.resendApiKey
                IN  /\ clients[fn] # 0 =>
                          /\ cresult'.kind = "client"
                          /\ cresult'.handle = clients[fn]
                          /\ clients' = clients /\ created' = created
                    /\ (clients[fn] = 0 /\ ~key) =>
                          /\ cresult'.kind = IF fn = "admin" THEN "raised" ELSE "undefined"
                          /\ clients' = clients /\ created' = created
                    /\ (clients[fn] = 0 /\ key) =>
                          /\ cresult'.kind = "client"
                          /\ clients'[fn] = cresult'.handle /\ clients'[fn] # 0
                          /\ created'[fn] = created[fn] + 1]_vars

\* a call that returned the cached datastore handle after the key was removed,
\* while the mail client is still not constructed
C31_Witness ==
    /\ cresult.fn = "admin" /\ cresult.kind = "client" /\ ~cresult.constructed
    /\ cresult.handle = clients.admin /\ created.admin = 1
    /\ ~env.serviceRoleKey
    /\ clients.resend = 0 /\ created.resend = 0 /\ ccalls >= 3

\* C32: every POST ends with exactly one response whose status is 200, 400,
\* 404 or 500; no request ends in an uncaught exception, the request whose
\* datastore client cannot be constructed included.
C32_EveryRequestIsAnswered ==
    \A h \in Handlers :
        /\ pc[h] # "threw"
        /\ Done(h) => resp[h].status \in {200, 400, 404, 500}

\* the name, course name and description a request carries: those of the
\* record for a database webhook, those of the body otherwise
RequestName(h) ==
    IF supabaseWebhookSchema(Body(h))
    THEN Body(h).record[1].user_name[1]
    ELSE Body(h).name[1]

RequestCourseName(h) ==
    IF supabaseWebhookSchema(Body(h))
    THEN Body(h).record[1].course_name
    ELSE Body(h).courseName

RequestDescription(h) ==
    IF supabaseWebhookSchema(Body(h))
    THEN Body(h).record[1].metadataDescription
    ELSE Body(h).personalizedDescription

\* C33: the name in the response, in the notification and on the certificate
\* is the name of the current request, not that of the stored person: the
\* upload writes awards/{id}.pdf with the request's name and leaves the people
\* rows alone, so a replay with another name replaces the certificate while
\* the person keeps the first name.
C33_NameIsTheRequestsName ==
    /\ [](/\ \A h \in Handlers : Ok(h) => resp[h].recipientName = RequestName(h)
          /\ \A m \in outbox : m.recipientName = RequestName(m.request))
    /\ [][\A h \in Handlers :
            (pc[h] = "certificate" /\ pc'[h] = "notify"
                /\ loc'[h].certificateUrl # None) =>
                /\ certificates' = (loc[h].awardId :> RequestName(h)) @@ certificates
                /\ people' = people]_vars

C33_Witness ==
    \E g, h \in Handlers :
        /\ Replays(g, h)
        /\ RequestName(g) # RequestName(h)
        /\ resp[h].certificateUrl # None /\ resp[g].certificateUrl # None
        /\ certificates[resp[h].awardId] = RequestName(h)
        /\ people[PersonOf(h)].name = RequestName(g)
        /\ resp[h].recipientName = RequestName(h)
        /\ \E m \in outbox : m.request = h /\ m.recipientName = RequestName(h)

\* the description the claim expects for a request
ExpectedDescription(h) ==
    IF RequestCourseName(h) # None /\ RequestCourseName(h)[1] # <<>>
    THEN [kind |-> "generated", text |-> RequestCourseName(h)[1]]
    ELSE IF RequestDescription(h) # None
         THEN [kind |-> "payload", text |-> RequestDescription(h)[1]]
         ELSE [kind |-> "none", text |-> <<>>]

\* C34: with a non-empty course name the description stored on a newly
\* created award, passed to the notification and echoed in the response is the
\* sentence generated from the course name, whatever description the payload
\* supplied; the supplied description is used only without a course name.
C34_CourseNameOverridesDescription ==
    /\ \A h \in Handlers :
          Ok(h) =>
              /\ resp[h].personalizedDescription = ExpectedDescription(h)
              /\ \A i \in AwardRowsCreatedBy(h) :
                    awards[i].personalized_description = ExpectedDescription(h)
    /\ \A m \in outbox : m.personalizedDescription = ExpectedDescription(m.request)

C34_Witness ==
    \E g, h \in Handlers :
        /\ Ok(g) /\ Ok(h)
        /\ RequestDescription(g) # None /\ RequestCourseName(g) = None
        /\ resp[g].personalizedDescription.kind = "payload"
        /\ RequestDescription(h) # None /\ RequestCourseName(h) # None
        /\ resp[h].personalizedDescription.kind = "generated"
        /\ \E i \in AwardRowsCreatedBy(h) :
              awards[i].personalized_description.kind = "generated"
        /\ \E m \in outbox : m.request = h /\ m.personalizedDescription.kind = "generated"

\* C35: the readers report a certificate link consistently with the stored
\* artifacts: an award returned by getAwardById or getAwards carries a
\* certificateUrl exactly when awards/{id}.pdf exists, so an award whose
\* certificate was never stored exposes none.
C35_CertificateLinkOnlyWhenStored ==
    qpc = "returned" =>
        /\ (qcall.fn = "getAwardById" /\ qresult.kind = "award") =>
              (qresult.value.certificateUrl # None
                  <=> qresult.value.id \in DOMAIN certificates)
        /\ (qcall.fn = "getAwards" /\ qresult.kind = "awards") =>
              \A k \in 1..Len(qresult.value) :
                  qresult.value[k].certificateUrl # None
                      <=> qresult.value[k].id \in DOMAIN certificates

\* C36: ensurePublicBucket calls createBucket exactly when the lookup reports
\* that the bucket does not exist (a 404 error, or neither data nor error);
\* with the bucket present it creates nothing; another lookup error raises
\* without a create; a failed create raises.  A raise ends that generation
\* with an error and leaves the bucket's objects and the award rows alone.
C36_BucketCreatedOnlyWhenAbsent ==
    /\ [](\A lookup \in {"data", "notFound", "nothing", "error"}, createFails \in BOOLEAN :
             LET r == ensurePublicBucket(lookup, createFails)
             IN  /\ r.attempted <=> lookup \in {"notFound", "nothing"}
                 /\ lookup = "data" => r.ok /\ ~r.created
                 /\ lookup = "error" => ~r.ok /\ r.error = "Failed to check bucket"
                 /\ r.attempted =>
                       IF createFails
                       THEN ~r.ok /\ ~r.created /\ r.error = "Failed to create bucket"
                       ELSE r.ok /\ r.created)
    /\ [][(gpc \in {"templateBucket", "uploadBucket"}) =>
             LET attempted == gio'.createBucket = gio.createBucket + 1
             IN  /\ gio'.createBucket \in {gio.createBucket, gio.createBucket + 1}
                 /\ attempted => ~bucketExists
                 /\ bucketExists' = (bucketExists \/ (attempted /\ gpc' # "idle"))
                 /\ (~bucketExists /\ gpc' # "idle") => attempted
                 /\ gpc' = "idle" =>
                       /\ ~gresult'.ok /\ gresult'.publicUrl = None
                       /\ gresult'.error = IF attempted THEN "Failed to create bucket"
                                           ELSE "Failed to check bucket"
                       /\ bucket' = bucket /\ uploadLog' = uploadLog
                       /\ awards' = awards /\ certificates' = certificates]_vars

\* the bucket was missing and created before the template download, and a
\* later call of the same generation found it
C36_Witness ==
    /\ gio.createBucket = 1 /\ bucketExists
    /\ gpc = "upload" /\ gcalls = 1

\* C37: every browser htmlToPdf launches is closed before it returns or
\* raises: while the page is being produced one browser is open, and whatever
\* newPage, setContent or page.pdf do, the step that ends htmlToPdf calls
\* browser.close exactly once; outside htmlToPdf no browser is open.
C37_BrowserAlwaysClosed ==
    /\ [](/\ gio.launch <= 1
          /\ gio.close = IF gpc = "page" THEN gio.launch - 1 ELSE gio.launch)
    /\ [][(gpc = "page") =>
             /\ gio'.close = gio.close + 1
             /\ gio'.launch = gio.launch
             /\ gpc' \in {"idle", "uploadBucket"}]_vars

\* page.pdf threw after a launch, and the browser was closed once
C37_Witness ==
    /\ gpc = "idle" /\ gresult.error = "pdf"
    /\ gio.launch = 1 /\ gio.close = 1

=============================================================================
